---- MODULE Spec2Model ----
(***************************************************************************)
(* Model of the inline-suggestion pipeline of the Aido review script       *)
(* (.github/scripts/review/aido-review.js): the diff hunk parser           *)
(* buildLineMap, the validator validateSuggestion, the suggestion parser   *)
(* parseSuggestions and the run of main() that validates the parsed        *)
(* suggestions and posts the review.                                       *)
(*                                                                         *)
(* Texts are TLA+ strings handled character by character, and the regular  *)
(* expressions of the source are written out as matchers over positions.   *)
(***************************************************************************)
EXTENDS Integers, Sequences, FiniteSets, TLC

VARIABLES
    pc,           \* position of the running function
    patch,        \* buildLineMap: the patch text being indexed
    lineIdx,      \* buildLineMap: index of the next element of lines
    newLineNum,   \* buildLineMap: the running new-file line counter
    lineMap,      \* buildLineMap: Map line number -> {exists, content, type}
    files,        \* main: the commentable files of the PR ({filename, patch})
    answer,       \* the suggestion blocks the provider writes in its answer
    markdown,     \* main: suggestionsOnlyText, the text handed to parseSuggestions
    blocks,       \* parseSuggestions: the successive matches of its regex
    suggestions,  \* main: the list returned by parseSuggestions
    lineMaps,     \* main: Map filename -> lineMap
    vIdx,         \* main: index of the next suggestion of the validation loop
    validation,   \* main: the result of the last validateSuggestion call
    validated,    \* main: the suggestions that passed validation
    comments,     \* main: the comments of the review payload
    reviewEvent,  \* main: the event of the review payload
    reviewCalls,  \* number of calls of octokit.pulls.createReview
    exitCode,     \* exit code of the process once it ended
    contextFindings,   \* main: the findings returned by collectContextChecks
    consolidated,      \* main: the text returned by the consolidated provider call
    consolidatedBody,  \* main: the review body built from consolidated
    reviewBody,        \* the body handed to octokit.pulls.createReview
    postOutcome,       \* "created" / "rejected" once createReview settled, "" before
    targetLine,   \* findPositionInPatch: the new-file line looked for
    position,     \* the older parseSuggestions: the position found, 0 for null
    positioned,   \* the older parseSuggestions: the suggestions it pushed
    script,       \* single-call scripts: explain, summarize, docs or suggest
    provider,     \* single-call scripts: config.provider in upper case
    apiKeySet,    \* single-call scripts: the API key of the provider is set
    reply,        \* single-call scripts: what the provider API answers
    generated,    \* single-call scripts: the text returned by the generation call
    thrown,       \* single-call scripts: the message of the error it threw, "" if none
    commentCalls, \* single-call scripts: the bodies handed to issues.createComment
    prComments,   \* single-call scripts: the comments the host accepted on the PR
    ctxFiles,        \* per-file suggest: ctx.files ({filename, patch})
    fIdx,            \* per-file suggest: index of the file the for loop is at
    fileText,        \* per-file suggest: the variable text of the loop body
    calls,           \* per-file suggest: for each file, the provider calls made for it
    allSuggestions,  \* per-file suggest: the array allSuggestions
    str,          \* truncate: its argument str
    max,          \* truncate: its argument max
    truncated,    \* truncate: the value returned
    repoAtHead,   \* collectContextChecks: path -> content at the head commit, for the lookups that succeed
    prBody,       \* collectContextChecks: context.prBody
    reviewerCfg,  \* collectContextChecks: the switches the configuration sets
    pyImports     \* collectContextChecks: the matches of importFromRe still to check

vars == <<pc, patch, lineIdx, newLineNum, lineMap, files, answer, markdown, blocks, suggestions,
          lineMaps, vIdx, validation, validated, comments, reviewEvent,
          reviewCalls, exitCode, contextFindings, consolidated, consolidatedBody,
          reviewBody, postOutcome, targetLine, position, positioned, script, provider,
          apiKeySet, reply, generated, thrown, commentCalls, prComments,
          ctxFiles, fIdx, fileText, calls, allSuggestions, str, max, truncated,
          repoAtHead, prBody, reviewerCfg, pyImports>>

diffVars == <<patch, lineIdx, newLineNum, lineMap>>
bodyVars == <<contextFindings, consolidated, consolidatedBody, reviewBody, postOutcome>>
runVars == <<files, answer, markdown, blocks, suggestions, lineMaps, vIdx, validation, validated,
             comments, reviewEvent, reviewCalls, exitCode, bodyVars>>
posVars == <<targetLine, position, positioned>>
\* the variables of the specifications that stand beside SpecDiff, SpecValidate and Spec
singleVars == <<script, provider, apiKeySet, reply, generated, thrown, commentCalls, prComments>>
perFileVars == <<ctxFiles, fIdx, fileText, calls, allSuggestions>>
truncVars == <<str, max, truncated>>
ctxVars == <<repoAtHead, prBody, reviewerCfg, pyImports>>
restVars == <<perFileVars, truncVars, ctxVars>>
sideVars == <<posVars, singleVars, restVars>>
\* the variables of main() other than the exit code
runVarsButExit == <<files, answer, markdown, blocks, suggestions, lineMaps, vIdx, validation,
                    validated, comments, reviewEvent, reviewCalls, bodyVars>>

(***************************************************************************)
(* JavaScript string primitives                                            *)
(***************************************************************************)
SetMin(S) == CHOOSE x \in S : \A y \in S : x <= y
SetMax(S) == CHOOSE x \in S : \A y \in S : x >= y
MaxOf(a, b) == IF a >= b THEN a ELSE b

\* s[i-1] of JavaScript (positions are 1-based here); "" outside the string
Ch(s, i) == IF i >= 1 /\ i <= Len(s) THEN SubSeq(s, i, i) ELSE ""

\* s.substring(i-1), the text from position i on
From(s, i) == IF i > Len(s) THEN "" ELSE SubSeq(s, i, Len(s))

\* s.substring(0, n)
substring0(s, n) == IF Len(s) <= n THEN s ELSE SubSeq(s, 1, n)

LowerChars == {"a", "b", "c", "d", "e", "f", "g", "h", "i", "j", "k", "l", "m",
               "n", "o", "p", "q", "r", "s", "t", "u", "v", "w", "x", "y", "z"}
UpperChars == {"A", "B", "C", "D", "E", "F", "G", "H", "I", "J", "K", "L", "M",
               "N", "O", "P", "Q", "R", "S", "T", "U", "V", "W", "X", "Y", "Z"}
DigitChars == {"0", "1", "2", "3", "4", "5", "6", "7", "8", "9"}
UpperAlphabet == "ABCDEFGHIJKLMNOPQRSTUVWXYZ"
LowerAlphabet == "abcdefghijklmnopqrstuvwxyz"
DigitAlphabet == "0123456789"

\* the regex classes \d, \w, \s and [a-zA-Z_]
IsDigit(c) == c \in DigitChars
IsWordCh(c) == c \in LowerChars \cup UpperChars \cup DigitChars \cup {"_"}
IsSpace(c) == c \in {" ", "\t", "\n", "\r", "\f"}
IsIdStart(c) == c \in LowerChars \cup UpperChars \cup {"_"}

\* the regex assertion \b between positions i-1 and i
WordBoundary(s, i) == IsWordCh(Ch(s, i - 1)) # IsWordCh(Ch(s, i))

\* the literal p occurs in s at position i
LitAt(s, i, p) == /\ i >= 1
                  /\ i + Len(p) - 1 <= Len(s)
                  /\ SubSeq(s, i, i + Len(p) - 1) = p

\* s.startsWith(p), s.endsWith(p), s.includes(p)
startsWith(s, p) == LitAt(s, 1, p)
endsWith(s, p) == Len(p) <= Len(s) /\ LitAt(s, Len(s) - Len(p) + 1, p)
includes(s, p) == \E i \in 1..(Len(s) + 1) : LitAt(s, i, p)

\* end of the greedy run \d* / \s* / \w* starting at position i (first position after it)
DigitsEnd(s, i) == SetMin({j \in i..(Len(s) + 1) : ~IsDigit(Ch(s, j))})
SpacesEnd(s, i) == SetMin({j \in i..(Len(s) + 1) : ~IsSpace(Ch(s, j))})
WordEnd(s, i) == SetMin({j \in i..(Len(s) + 1) : ~IsWordCh(Ch(s, j))})

LowerCh(c) ==
    IF c \in UpperChars
    THEN Ch(LowerAlphabet, CHOOSE k \in 1..26 : Ch(UpperAlphabet, k) = c)
    ELSE c

\* s.toLowerCase(): every character lowered (the text is halved to keep the recursion shallow)
RECURSIVE toLowerCase(_)
toLowerCase(s) ==
    IF Len(s) <= 1 THEN LowerCh(s)
    ELSE toLowerCase(SubSeq(s, 1, Len(s) \div 2)) \o toLowerCase(From(s, Len(s) \div 2 + 1))

UpperCh(c) ==
    IF c \in LowerChars
    THEN Ch(UpperAlphabet, CHOOSE k \in 1..26 : Ch(LowerAlphabet, k) = c)
    ELSE c

\* s.toUpperCase()
RECURSIVE toUpperCase(_)
toUpperCase(s) ==
    IF Len(s) <= 1 THEN UpperCh(s)
    ELSE toUpperCase(SubSeq(s, 1, Len(s) \div 2)) \o toUpperCase(From(s, Len(s) \div 2 + 1))

\* s.trim()
trim(s) ==
    LET keep == {i \in 1..Len(s) : ~IsSpace(Ch(s, i))}
    IN IF keep = {} THEN "" ELSE SubSeq(s, SetMin(keep), SetMax(keep))

\* s.split('\n')
RECURSIVE split(_)
split(s) ==
    LET nl == {i \in 1..Len(s) : Ch(s, i) = "\n"}
    IN IF nl = {} THEN <<s>>
       ELSE <<SubSeq(s, 1, SetMin(nl) - 1)>> \o split(From(s, SetMin(nl) + 1))

\* parts.join('\n')
RECURSIVE join(_)
join(parts) ==
    IF parts = <<>> THEN ""
    ELSE IF Len(parts) = 1 THEN parts[1]
    ELSE parts[1] \o "\n" \o join(Tail(parts))

DigitVal(c) == CHOOSE d \in 0..9 : Ch(DigitAlphabet, d + 1) = c

\* parseInt(digits, 10) of a non-empty run of decimal digits
RECURSIVE parseInt(_)
parseInt(digits) ==
    IF Len(digits) = 1 THEN DigitVal(digits)
    ELSE 10 * parseInt(SubSeq(digits, 1, Len(digits) - 1)) + DigitVal(Ch(digits, Len(digits)))

\* String(n) / `${n}` of a non-negative integer
RECURSIVE numToString(_)
numToString(n) ==
    IF n < 10 THEN Ch(DigitAlphabet, n + 1)
    ELSE numToString(n \div 10) \o Ch(DigitAlphabet, (n % 10) + 1)

\* Map.set(k, v) on a map held as a function
MapSet(m, k, v) == [x \in (DOMAIN m) \cup {k} |-> IF x = k THEN v ELSE m[x]]
EmptyMap == [x \in {} |-> 0]

(***************************************************************************)
(* buildLineMap (DiffIndex)                                                *)
(***************************************************************************)
\* (?:,\d+)? starting at position i: the position after it
OptCount(s, i) ==
    IF Ch(s, i) = "," /\ IsDigit(Ch(s, i + 1)) THEN DigitsEnd(s, i + 1) ELSE i

\* /@@ -\d+(?:,\d+)? \+(\d+)(?:,\d+)? @@/ matched at position i of line;
\* the result is match[1] (the digits of newStart), or "" when there is no match there
HunkHeaderAt(line, i) ==
    LET oldFrom == i + 4
        oldTo == DigitsEnd(line, oldFrom)
        plusAt == OptCount(line, oldTo)
        newFrom == plusAt + 2
        newTo == DigitsEnd(line, newFrom)
        tailAt == OptCount(line, newTo)
    IN IF /\ LitAt(line, i, "@@ -")
          /\ oldTo > oldFrom
          /\ LitAt(line, plusAt, " +")
          /\ newTo > newFrom
          /\ LitAt(line, tailAt, " @@")
       THEN SubSeq(line, newFrom, newTo - 1)
       ELSE ""

\* line.match(/@@ -\d+(?:,\d+)? \+(\d+)(?:,\d+)? @@/): match[1] of the leftmost match, "" for null
HunkHeaderMatch(line) ==
    LET hits == {i \in 1..Len(line) : HunkHeaderAt(line, i) # ""}
    IN IF hits = {} THEN "" ELSE HunkHeaderAt(line, SetMin(hits))

\* LineStep with the slip of counting a deletion line as a line of the new file
LineStepCountingDeletions(st, line) ==
    IF startsWith(line, "@@")
    THEN LET m == HunkHeaderMatch(line)
         IN IF m # "" THEN [st EXCEPT !.newLineNum = parseInt(m)] ELSE st
    ELSE IF st.newLineNum = 0 THEN st
    ELSE IF startsWith(line, "-") THEN [st EXCEPT !.newLineNum = st.newLineNum + 1]
    ELSE IF startsWith(line, "+") \/ startsWith(line, " ")
    THEN [newLineNum |-> st.newLineNum + 1,
          lineMap |-> MapSet(st.lineMap, st.newLineNum,
                             [exists |-> TRUE, content |-> From(line, 2),
                              type |-> IF startsWith(line, "+") THEN "add" ELSE "context"])]
    ELSE st

\* one iteration of the for loop of buildLineMap over `line`,
\* from the state st = [newLineNum, lineMap]
LineStep(st, line) ==
    IF startsWith(line, "@@")
    THEN LET m == HunkHeaderMatch(line)
         IN IF m # "" THEN [st EXCEPT !.newLineNum = parseInt(m)] ELSE st
    ELSE IF st.newLineNum = 0 THEN st
    ELSE IF startsWith(line, "-") THEN st
    ELSE IF startsWith(line, "+")
    THEN [newLineNum |-> st.newLineNum + 1,
          lineMap |-> MapSet(st.lineMap, st.newLineNum,
                             [exists |-> TRUE, content |-> From(line, 2), type |-> "add"])]
    ELSE IF startsWith(line, " ")
    THEN [newLineNum |-> st.newLineNum + 1,
          lineMap |-> MapSet(st.lineMap, st.newLineNum,
                             [exists |-> TRUE, content |-> From(line, 2), type |-> "context"])]
    ELSE st

RECURSIVE BuildFrom(_, _, _)
BuildFrom(lines, i, st) ==
    IF i > Len(lines) THEN st ELSE BuildFrom(lines, i + 1, LineStep(st, lines[i]))

buildLineMap(p) ==
    BuildFrom(split(p), 1, [newLineNum |-> 0, lineMap |-> EmptyMap]).lineMap

(***************************************************************************)
(* findPositionInPatch (PatchPositionResolver) of the older review script  *)
(***************************************************************************)
\* ,?\d* starting at position i: the position after it
LooseCount(s, i) == IF Ch(s, i) = "," THEN DigitsEnd(s, i + 1) ELSE i

\* /@@ -(\d+),?\d* \+(\d+),?\d* @@/ matched at position i of line;
\* the result is m[2] (the digits of newStart), or "" when there is no match there
PositionHeaderAt(line, i) ==
    LET oldFrom == i + 4
        oldTo == DigitsEnd(line, oldFrom)
        plusAt == LooseCount(line, oldTo)
        newFrom == plusAt + 2
        newTo == DigitsEnd(line, newFrom)
        tailAt == LooseCount(line, newTo)
    IN IF /\ LitAt(line, i, "@@ -")
          /\ oldTo > oldFrom
          /\ LitAt(line, plusAt, " +")
          /\ newTo > newFrom
          /\ LitAt(line, tailAt, " @@")
       THEN SubSeq(line, newFrom, newTo - 1)
       ELSE ""

\* line.match(/@@ -(\d+),?\d* \+(\d+),?\d* @@/): m[2] of the leftmost match, "" for null
PositionHeaderMatch(line) ==
    LET hits == {i \in 1..Len(line) : PositionHeaderAt(line, i) # ""}
    IN IF hits = {} THEN "" ELSE PositionHeaderAt(line, SetMin(hits))

\* foundAt with the slip of returning the index counted from 0 (`return i`)
foundAtCountedFromZero(i) == i - 1

\* `return i + 1`, where lines[i] of the source is lines[i] here counted from 1
foundAt(i) == i

\* the counter after a header that forgets that the first line of the hunk
\* is still to come (`currentLine = parseInt(m[2], 10)`)
currentLineAtStart(newStart) == newStart

\* `currentLine = parseInt(m[2], 10) - 1`
currentLineAfterHeader(newStart) == newStart - 1

\* the for loop of findPositionInPatch from the line i (counted from 1) with
\* the counter currentLine; 0 stands for the null returned after the loop
RECURSIVE FindFrom(_, _, _, _)
FindFrom(lines, i, currentLine, target) ==
    IF i > Len(lines) THEN 0
    ELSE LET line == lines[i]
         IN IF startsWith(line, "@@")
            THEN LET m == PositionHeaderMatch(line)
                 IN FindFrom(lines, i + 1, IF m # "" THEN currentLineAfterHeader(parseInt(m))
                                           ELSE currentLine,
                             target)
            ELSE IF startsWith(line, "-") THEN FindFrom(lines, i + 1, currentLine, target)
            ELSE IF startsWith(line, "+") \/ startsWith(line, " ")
            THEN IF currentLine + 1 = target THEN foundAt(i)
                 ELSE FindFrom(lines, i + 1, currentLine + 1, target)
            ELSE FindFrom(lines, i + 1, currentLine, target)

findPositionInPatch(p, target) == FindFrom(split(p), 1, 0, target)

(***************************************************************************)
(* validateSuggestion (SuggestionValidator)                                *)
(***************************************************************************)
\* text.match(/[a-zA-Z_][a-zA-Z0-9_]*/g) || [], scanning from position i
RECURSIVE MatchWords(_, _)
MatchWords(text, i) ==
    LET starts == {j \in i..Len(text) : IsIdStart(Ch(text, j))}
    IN IF starts = {} THEN {}
       ELSE LET from == SetMin(starts)
                to == WordEnd(text, from)
            IN {SubSeq(text, from, to - 1)} \cup MatchWords(text, to)

\* new Set(words.filter((w) => w.length > 2))
extractIdentifiers(text) == {w \in MatchWords(text, 1) : Len(w) > 2}

\* /\bkw\b/.test(text)
HasWord(text, kw) ==
    \E i \in 1..Len(text) :
        /\ LitAt(text, i, kw)
        /\ WordBoundary(text, i)
        /\ WordBoundary(text, i + Len(kw))

\* /\bkw\s*\(/.test(text)
HasWordParen(text, kw) ==
    \E i \in 1..Len(text) :
        /\ LitAt(text, i, kw)
        /\ WordBoundary(text, i)
        /\ Ch(text, SpacesEnd(text, i + Len(kw))) = "("

\* /\breturn\s+(?:false|null|true|-?\d+|['"])/i.test(text)
HasEarlyReturn(text) ==
    LET t == toLowerCase(text)
    IN \E i \in 1..Len(t) :
        /\ LitAt(t, i, "return")
        /\ WordBoundary(t, i)
        /\ LET j == SpacesEnd(t, i + 6)
           IN /\ j > i + 6
              /\ \/ LitAt(t, j, "false")
                 \/ LitAt(t, j, "null")
                 \/ LitAt(t, j, "true")
                 \/ IsDigit(Ch(t, j))
                 \/ Ch(t, j) = "-" /\ IsDigit(Ch(t, j + 1))
                 \/ Ch(t, j) \in {"'", "\""}

\* /isset\s*\(|!==\s*(?:null|undefined)|===\s*(?:null|undefined)/.test(text)
HasExistenceCheck(text) ==
    \E i \in 1..Len(text) :
        \/ LitAt(text, i, "isset") /\ Ch(text, SpacesEnd(text, i + 5)) = "("
        \/ /\ LitAt(text, i, "!==") \/ LitAt(text, i, "===")
           /\ LET j == SpacesEnd(text, i + 3)
              IN LitAt(text, j, "null") \/ LitAt(text, j, "undefined")

\* /\[[^\]]+\]/.test(text)
HasArrayAccess(text) ==
    \E i \in 1..Len(text) :
        /\ Ch(text, i) = "["
        /\ i + 1 <= Len(text)
        /\ Ch(text, i + 1) # "]"
        /\ \E j \in (i + 2)..Len(text) : Ch(text, j) = "]"

\* /\w+\s*\(/.test(text)
HasMethodCall(text) ==
    \E i \in 1..Len(text) :
        IsWordCh(Ch(text, i)) /\ Ch(text, SpacesEnd(text, i + 1)) = "("

\* /=(?!=)/.test(text) && !/[=!<>]=/.test(text)
HasAssignment(text) ==
    /\ \E i \in 1..Len(text) : Ch(text, i) = "=" /\ Ch(text, i + 1) # "="
    /\ ~\E i \in 1..Len(text) : Ch(text, i) \in {"=", "!", "<", ">"} /\ Ch(text, i + 1) = "="

extractStructure(text) ==
    [hasReturn |-> HasWord(text, "return"),
     hasForeach |-> HasWord(text, "foreach"),
     hasFor |-> HasWordParen(text, "for"),
     hasWhile |-> HasWordParen(text, "while"),
     hasIf |-> HasWordParen(text, "if"),
     hasElse |-> HasWord(text, "else"),
     hasTry |-> HasWord(text, "try"),
     hasCatch |-> HasWord(text, "catch"),
     hasThrow |-> HasWord(text, "throw"),
     hasFunction |-> HasWord(text, "function"),
     hasClass |-> HasWord(text, "class"),
     hasSwitch |-> HasWordParen(text, "switch"),
     hasEarlyReturn |-> HasEarlyReturn(text),
     hasExistenceCheck |-> HasExistenceCheck(text),
     hasArrayAccess |-> HasArrayAccess(text),
     hasMethodCall |-> HasMethodCall(text),
     hasAssignment |-> HasAssignment(text)]

\* the `.` of a regex: any character but a line terminator
NoLineBreak(text, from, to) == \A k \in from..to : Ch(text, k) \notin {"\n", "\r"}

\* lead.*(?:w1|w2|...) matched somewhere in t
LeadThenOneOf(t, lead, ws) ==
    \E i \in 1..Len(t) :
        /\ LitAt(t, i, lead)
        /\ \E j \in (i + Len(lead))..Len(t) :
            /\ \E w \in ws : LitAt(t, j, w)
            /\ NoLineBreak(t, i + Len(lead), j - 1)

\* issueExplicit with the slip of leaving out the i flag of the regex
issueExplicitCaseSensitive(issue) ==
    \/ LeadThenOneOf(issue, "remov", {"check", "validat", "isset"})
    \/ LeadThenOneOf(issue, "skip", {"check", "validat"})

\* /remov.*(?:check|validat|isset)|skip.*(?:check|validat)/i.test(issue || '')
issueExplicit(issue) ==
    LET t == toLowerCase(issue)
    IN \/ LeadThenOneOf(t, "remov", {"check", "validat", "isset"})
       \/ LeadThenOneOf(t, "skip", {"check", "validat"})

\* line.match(/\b[a-zA-Z_][a-zA-Z0-9_]*\b/): match[0], or '' for no match
getFirstToken(line) ==
    LET hits == {i \in 1..Len(line) : IsIdStart(Ch(line, i)) /\ WordBoundary(line, i)}
    IN IF hits = {} THEN ""
       ELSE SubSeq(line, SetMin(hits), WordEnd(line, SetMin(hits)) - 1)

\* the content of the lines startLine..endLine, in order (the array actualLines)
RECURSIVE ActualLines(_, _, _)
ActualLines(lm, i, endLine) ==
    IF i > endLine THEN <<>> ELSE <<lm[i].content>> \o ActualLines(lm, i + 1, endLine)

\* the constants computed by validateSuggestion before its rules
Locals(suggestion, lm) ==
    LET actualLines == ActualLines(lm, suggestion.startLine, suggestion.endLine)
        actualCode == trim(join(actualLines))
        suggestedCode == trim(suggestion.code)
        actualIds == extractIdentifiers(actualCode)
        suggestedIds == extractIdentifiers(suggestion.code)
        commonIds == {id \in actualIds : id \in suggestedIds}
        actualStructure == extractStructure(actualCode)
        suggestedStructure == extractStructure(suggestedCode)
    IN [actualLines |-> actualLines,
        actualCode |-> actualCode,
        suggestedCode |-> suggestedCode,
        actualIds |-> actualIds,
        suggestedIds |-> suggestedIds,
        commonIds |-> commonIds,
        hasOverlap |-> Cardinality(commonIds) > 0,
        \* overlapRatio = ratioNum / ratioDen
        ratioNum |-> IF actualIds # {} /\ suggestedIds # {} THEN Cardinality(commonIds) ELSE 0,
        ratioDen |-> IF actualIds # {} /\ suggestedIds # {}
                     THEN MaxOf(Cardinality(actualIds), Cardinality(suggestedIds)) ELSE 1,
        actualStructure |-> actualStructure,
        suggestedStructure |-> suggestedStructure,
        structuralChanges |-> {key \in DOMAIN actualStructure :
                                   actualStructure[key] # suggestedStructure[key]}]

\* the values validateSuggestion can produce: a returned verdict, or an exception
Accept(actualCode) == [threw |-> FALSE, valid |-> TRUE, reason |-> "", actualCode |-> actualCode]
Reject(reason) == [threw |-> FALSE, valid |-> FALSE, reason |-> reason, actualCode |-> ""]
ThrowTypeError == [threw |-> TRUE, valid |-> FALSE,
                   reason |-> "TypeError: commonIds.has is not a function", actualCode |-> ""]

\* Math.round(overlapRatio * 100)
RoundedPercent(a) == (200 * a.ratioNum + a.ratioDen) \div (2 * a.ratioDen)

\* removesGuardClause with the slip of testing hasReturn instead of hasEarlyReturn
removesGuardClauseByReturn(a) ==
    a.actualStructure.hasReturn /\ ~a.suggestedStructure.hasReturn

\* actualStructure.hasEarlyReturn && !suggestedStructure.hasEarlyReturn
removesGuardClause(a) ==
    a.actualStructure.hasEarlyReturn /\ ~a.suggestedStructure.hasEarlyReturn

\* actualStructure.hasExistenceCheck && !suggestedStructure.hasExistenceCheck
removesExistenceCheck(a) ==
    a.actualStructure.hasExistenceCheck /\ ~a.suggestedStructure.hasExistenceCheck

\* isCompleteRewrite with the slip of leaving out the test of hasIf and hasForeach
isCompleteRewriteAnyFeature(a) ==
    Cardinality(a.structuralChanges) >= 3

\* structuralChanges.length >= 3 && (hasIf differs || hasForeach differs)
isCompleteRewrite(a) ==
    /\ Cardinality(a.structuralChanges) >= 3
    /\ \/ a.actualStructure.hasIf # a.suggestedStructure.hasIf
       \/ a.actualStructure.hasForeach # a.suggestedStructure.hasForeach

\* the operands of the && chain of the continuity check that are evaluated
\* before commonIds.has(actualToken); commonIds is an Array, which has no
\* method has, so evaluating that call throws a TypeError
reachesCommonIdsHas(a) ==
    LET actualToken == getFirstToken(trim(a.actualLines[1]))
        suggestedToken == getFirstToken(trim(split(a.suggestedCode)[1]))
    IN actualToken # "" /\ suggestedToken # "" /\ actualToken # suggestedToken

validateSuggestion(suggestion, lm) ==
    LET missing == {i \in suggestion.startLine..suggestion.endLine : i \notin DOMAIN lm}
        \* the rules, applied in order to the constants a
        Rules(a) ==
            IF removesGuardClause(a)
            THEN Reject("Removes guard clause/early return without explanation. Actual: \""
                        \o substring0(a.actualCode, 80) \o "\"")
            ELSE IF removesExistenceCheck(a) /\ ~issueExplicit(suggestion.issue)
            THEN Reject("Removes existence/validation check without explicit justification. Actual: \""
                        \o substring0(a.actualCode, 80) \o "\"")
            ELSE IF isCompleteRewrite(a) /\ Cardinality(a.commonIds) < 2
            THEN Reject("Completely rewrites control flow with minimal identifier overlap. This looks like wrong line targeting. Actual: \""
                        \o substring0(a.actualCode, 80) \o "\"")
            ELSE IF Len(a.actualCode) < 20 /\ (a.hasOverlap \/ Len(a.suggestedCode) < 20)
            THEN Accept(a.actualCode)
            ELSE IF a.actualIds # {} /\ a.suggestedIds # {} /\ 5 * a.ratioNum < a.ratioDen
            THEN Reject("Insufficient identifier overlap (" \o numToString(RoundedPercent(a))
                        \o "%). Actual: \"" \o substring0(a.actualCode, 60)
                        \o "\", Suggested: \"" \o substring0(a.suggestedCode, 60) \o "\"")
            ELSE IF suggestion.endLine - suggestion.startLine >= 2 /\ reachesCommonIdsHas(a)
            THEN ThrowTypeError
            ELSE Accept(a.actualCode)
    IN IF missing # {}
       THEN Reject("Line " \o numToString(SetMin(missing)) \o " not found in diff")
       ELSE Rules(Locals(suggestion, lm))

(***************************************************************************)
(* parseSuggestions (SuggestionParser), from the matches of its regex on   *)
(* the LLM text: block = [fileLabel, linesLabel, issue, prioRaw, code]     *)
(***************************************************************************)
\* the predicate of files.find(...) for the file name f and the trimmed label
fileMatches(f, filename) ==
    \/ f = filename
    \/ endsWith(f, filename)
    \/ endsWith(filename, f)
    \/ includes(f, filename)
    \/ includes(filename, f)

\* files.find(...): the index of the first matching file, 0 for undefined
findFile(fs, filename) ==
    LET hits == {k \in 1..Len(fs) : fileMatches(fs[k].filename, filename)}
    IN IF hits = {} THEN 0 ELSE SetMin(hits)

\* linesLabel.match(/(\d+)(?:-(\d+))?/): <<match[1], match[2]>> with "" for
\* an undefined group, <<>> for null
lineMatch(linesLabel) ==
    LET ds == {i \in 1..Len(linesLabel) : IsDigit(Ch(linesLabel, i))}
    IN IF ds = {} THEN <<>>
       ELSE LET from == SetMin(ds)
                to == DigitsEnd(linesLabel, from)
            IN <<SubSeq(linesLabel, from, to - 1),
                 IF Ch(linesLabel, to) = "-" /\ IsDigit(Ch(linesLabel, to + 1))
                 THEN SubSeq(linesLabel, to + 1, DigitsEnd(linesLabel, to + 1) - 1)
                 ELSE "">>

\* normalizePriority with the slip of leaving out the trim()
normalizePriorityUntrimmed(prioRaw) ==
    LET priority == toUpperCase(prioRaw)
    IN IF priority \in {"URGENT", "HIGH", "MEDIUM", "LOW"} THEN priority ELSE "MEDIUM"

\* const priority = (prioRaw || '').trim().toUpperCase(); const normalizedPriority = ...
normalizePriority(prioRaw) ==
    LET priority == toUpperCase(trim(prioRaw))
    IN IF priority \in {"URGENT", "HIGH", "MEDIUM", "LOW"} THEN priority ELSE "MEDIUM"

\* ---- the regular expression `re` of parseSuggestions (flags g and i) ----
\* It is held as the sequence of its elements and matched by backtracking, every
\* greedy element trying its longest match first.  A state of the matcher is
\* [pos, took]: the position in the text and whether the optional Priority
\* group was entered.  A TLA+ string cannot hold a backquote, which is
\* written ~ here.
Tick == "~"

\* the code fence of three backquotes
Fence == "~~~"

\* the character classes \s, [^\n*`], [^\n*] and [\w-]
InClass(cls, c) ==
    IF c = "" THEN FALSE
    ELSE IF cls = "space" THEN IsSpace(c)
    ELSE IF cls = "label" THEN c \notin {"\n", "*", Tick}
    ELSE IF cls = "text" THEN c \notin {"\n", "*"}
    ELSE IsWordCh(c) \/ c = "-"

\* first position at or after i whose character is not in the class
RECURSIVE RunEnd(_, _, _)
RunEnd(text, i, cls) == IF InClass(cls, Ch(text, i)) THEN RunEnd(text, i + 1, cls) ELSE i

\* a literal matched without regard to case (flag i)
LitAtCI(text, i, p) ==
    /\ i >= 1
    /\ i + Len(p) - 1 <= Len(text)
    /\ toLowerCase(SubSeq(text, i, i + Len(p) - 1)) = toLowerCase(p)

ReLits(alts) == [kind |-> "lits", alts |-> alts, cls |-> "", grp |-> FALSE]
ReStar(cls) == [kind |-> "star", alts |-> <<>>, cls |-> cls, grp |-> FALSE]
RePlus(cls) == [kind |-> "plus", alts |-> <<>>, cls |-> cls, grp |-> FALSE]
ReOpt(c) == [kind |-> "opt", alts |-> <<c>>, cls |-> "", grp |-> FALSE]
ReChr(c) == [kind |-> "chr", alts |-> <<c>>, cls |-> "", grp |-> FALSE]
ReEnter == [kind |-> "enter", alts |-> <<>>, cls |-> "", grp |-> FALSE]
InGroup(e) == [e EXCEPT !.grp = TRUE]

\* the elements of `re` up to the newline after the Suggestion marker
SuggestionRe ==
    << ReLits(<<"**File:", "File:">>),                                      \*  1
       ReStar("space"), ReOpt(Tick), RePlus("label"), ReOpt(Tick),          \*  2-5
       ReOpt("*"), ReOpt("*"), ReStar("space"), ReChr("\n"),                \*  6-9
       ReLits(<<"**Lines:", "**Line:", "Lines:", "Line:">>),                \* 10
       ReStar("space"), RePlus("text"),                                     \* 11-12
       ReOpt("*"), ReOpt("*"), ReStar("space"), ReChr("\n"),                \* 13-16
       ReLits(<<"**Issue:", "Issue:">>),                                    \* 17
       ReStar("space"), RePlus("text"), ReOpt("*"), ReOpt("*"),             \* 18-21
       ReEnter,                                                             \* 22
       InGroup(ReChr("\n")),                                                \* 23
       InGroup(ReLits(<<"**Priority:", "Priority:">>)),                     \* 24
       InGroup(ReStar("space")), InGroup(RePlus("text")),                   \* 25-26
       InGroup(ReOpt("*")), InGroup(ReOpt("*")),                            \* 27-28
       ReStar("space"), ReChr("\n"),                                        \* 29-30
       ReLits(<<"**Suggestion:**", "Suggestion:">>),                        \* 31
       ReStar("space"), ReChr("\n") >>                                      \* 32-33

\* the states after the element e matched from the state st, in the order in
\* which the backtracking matcher tries them
Outcomes(text, e, st) ==
    LET p == st.pos
        At(q) == [st EXCEPT !.pos = q]
    IN IF e.grp /\ ~st.took THEN <<st>>
       ELSE IF e.kind = "lits"
       THEN LET hit == SelectSeq(e.alts, LAMBDA a : LitAtCI(text, p, a))
            IN [j \in 1..Len(hit) |-> At(p + Len(hit[j]))]
       ELSE IF e.kind = "star"
       THEN LET to == RunEnd(text, p, e.cls) IN [j \in 1..(to - p + 1) |-> At(to - j + 1)]
       ELSE IF e.kind = "plus"
       THEN LET to == RunEnd(text, p, e.cls) IN [j \in 1..(to - p) |-> At(to - j + 1)]
       ELSE IF e.kind = "opt"
       THEN IF Ch(text, p) = e.alts[1] THEN <<At(p + 1), st>> ELSE <<st>>
       ELSE IF e.kind = "chr"
       THEN IF Ch(text, p) = e.alts[1] THEN <<At(p + 1)>> ELSE <<>>
       ELSE <<[pos |-> p, took |-> TRUE], [pos |-> p, took |-> FALSE]>>

\* Every run of elements between two markers ends with \s*\n followed by a
\* marker that starts with a non-blank character, so the text fixes the
\* position at which such a run ends: the matcher runs marker to marker.
\* MatchSpan is the first way, in backtracking order, of matching the elements
\* k..last from the state st so that the element after them can match: the
\* states before each element and after the last one, <<>> when there is none.
RECURSIVE MatchSpan(_, _, _, _)
MatchSpan(text, k, last, st) ==
    LET FirstFound(tried) ==
            IF \A j \in DOMAIN tried : tried[j] = <<>> THEN <<>>
            ELSE <<st>> \o tried[SetMin({j \in DOMAIN tried : tried[j] # <<>>})]
        TryEach(outs) == FirstFound([j \in DOMAIN outs |-> MatchSpan(text, k + 1, last, outs[j])])
        Ends(outs) == IF last = Len(SuggestionRe) \/ outs # <<>> THEN <<st>> ELSE <<>>
    IN IF k > last
       THEN Ends(IF last = Len(SuggestionRe) THEN <<>> ELSE Outcomes(text, SuggestionRe[last + 1], st))
       ELSE TryEach(Outcomes(text, SuggestionRe[k], st))

\* the last element of `re` from position q:
\* (?:```[\w-]*\n([\s\S]*?)\n```|([\s\S]*?)(?=\n(?:\*\*?File:|File:)|$))
\* gives [end, fenced, code, codeAlt]
CodeMatch(text, q) ==
    LET info == RunEnd(text, q + 3, "fence")
        closes == {c \in (info + 1)..Len(text) : LitAt(text, c, "\n" \o Fence)}
        lower == toLowerCase(text)
        stops == {c \in q..Len(text) : \/ LitAt(lower, c, "\n**file:")
                                       \/ LitAt(lower, c, "\n*file:")
                                       \/ LitAt(lower, c, "\nfile:")}
        stop == IF stops = {} THEN Len(text) + 1 ELSE SetMin(stops)
    IN IF LitAt(text, q, Fence) /\ Ch(text, info) = "\n" /\ closes # {}
       THEN [end |-> SetMin(closes) + 4, fenced |-> TRUE,
             code |-> SubSeq(text, info + 1, SetMin(closes) - 1), codeAlt |-> ""]
       ELSE [end |-> stop, fenced |-> FALSE, code |-> "",
             codeAlt |-> SubSeq(text, q, stop - 1)]

\* the text between two states of the matcher
Between(text, from, to) == SubSeq(text, from.pos, to.pos - 1)

\* re matched at position i: the captures fileLabel, linesLabel, issue,
\* prioRaw ("" for undefined) and code after
\* `if (!code || !code.trim()) code = codeAlt || ''`, with the end of the match;
\* end = 0 when re does not match at i
MatchAt(text, i) ==
    LET Captures(fileLine, linesLine, issueLines, last) ==
            [end |-> last.end,
             fileLabel |-> Between(text, fileLine[4], fileLine[5]),
             linesLabel |-> Between(text, linesLine[3], linesLine[4]),
             issue |-> Between(text, issueLines[3], issueLines[4]),
             prioRaw |-> IF issueLines[15].took
                         THEN Between(text, issueLines[10], issueLines[11])
                         ELSE "",
             code |-> IF last.fenced /\ trim(last.code) # "" THEN last.code ELSE last.codeAlt]
        AfterMarker(fileLine, linesLine, issueLines, marker) ==
            IF marker = <<>> THEN [end |-> 0]
            ELSE Captures(fileLine, linesLine, issueLines, CodeMatch(text, marker[4].pos))
        AfterIssue(fileLine, linesLine, issueLines) ==
            IF issueLines = <<>> THEN [end |-> 0]
            ELSE AfterMarker(fileLine, linesLine, issueLines,
                             MatchSpan(text, 31, 33, issueLines[15]))
        AfterLines(fileLine, linesLine) ==
            IF linesLine = <<>> THEN [end |-> 0]
            ELSE AfterIssue(fileLine, linesLine, MatchSpan(text, 17, 30, linesLine[8]))
        AfterFile(fileLine) ==
            IF fileLine = <<>> THEN [end |-> 0]
            ELSE AfterLines(fileLine, MatchSpan(text, 10, 16, fileLine[10]))
    IN AfterFile(MatchSpan(text, 1, 9, [pos |-> i, took |-> FALSE]))

\* the loop `while ((m = re.exec(markdown)) !== null)` from lastIndex + 1 = from:
\* the successive matches of `re`, each tried where a File marker stands
RECURSIVE execAll(_, _)
execAll(text, from) ==
    LET marks == {i \in from..Len(text) : LitAtCI(text, i, "**file:") \/ LitAtCI(text, i, "file:")}
        Matched(at, m) ==
            IF m.end = 0 THEN execAll(text, at + 1)
            ELSE <<[fileLabel |-> m.fileLabel, linesLabel |-> m.linesLabel,
                    issue |-> m.issue, prioRaw |-> m.prioRaw, code |-> m.code]>>
                 \o execAll(text, m.end)
        FromMark(at) == Matched(at, MatchAt(text, at))
    IN IF marks = {} THEN <<>> ELSE FromMark(SetMin(marks))

\* one iteration of the while loop of parseSuggestions: the suggestions pushed
\* for one match (none after a `continue`)
parseBlock(block, fs) ==
    LET filename == trim(block.fileLabel)
        k == findFile(fs, filename)
        lm == lineMatch(block.linesLabel)
    IN IF k = 0 \/ fs[k].patch = "" THEN <<>>
       ELSE IF lm = <<>> THEN <<>>
       ELSE <<[path |-> fs[k].filename,
               issue |-> trim(block.issue),
               code |-> trim(block.code),
               startLine |-> parseInt(lm[1]),
               endLine |-> IF lm[2] # "" THEN parseInt(lm[2]) ELSE parseInt(lm[1]),
               priority |-> normalizePriority(block.prioRaw)]>>

RECURSIVE parseBlocks(_, _, _)
parseBlocks(bs, i, fs) ==
    IF i > Len(bs) THEN <<>> ELSE parseBlock(bs[i], fs) \o parseBlocks(bs, i + 1, fs)

\* `${s.path}:${s.startLine}:${s.issue.toLowerCase()}`
dedupKey(sg) == sg.path \o ":" \o numToString(sg.startLine) \o ":" \o toLowerCase(sg.issue)

\* the deduplication loop of parseSuggestions from index i, with the keys seen so far
RECURSIVE dedupFrom(_, _, _)
dedupFrom(sgs, i, seen) ==
    IF i > Len(sgs) THEN <<>>
    ELSE IF dedupKey(sgs[i]) \notin seen
    THEN <<sgs[i]>> \o dedupFrom(sgs, i + 1, seen \cup {dedupKey(sgs[i])})
    ELSE dedupFrom(sgs, i + 1, seen)

\* `if (!markdown) return []`, the loop over the matches, the deduplication
\* gives [matches, unique]: the matches of the regex and the list returned
parseSuggestions(md, fs) ==
    LET Parsed(matches) ==
            [matches |-> matches, unique |-> dedupFrom(parseBlocks(matches, 1, fs), 1, {})]
    IN Parsed(IF md = "" THEN <<>> ELSE execAll(md, 1))

(***************************************************************************)
(* The review body of main(): the consolidated text without its restated   *)
(* suggestions, followed by the context findings. Emoji are named by their *)
(* code points.                                                            *)
(***************************************************************************)
\* the default model of the default provider
model == "gemini-2.5-flash"

\* end of the greedy run [ \t]* starting at position i
RECURSIVE SkipBlanks(_, _)
SkipBlanks(s, i) == IF Ch(s, i) \in {" ", "\t"} THEN SkipBlanks(s, i + 1) ELSE i

\* end of the greedy run #{0,6} starting at position i
HashesEnd(s, i) == SetMax({j \in i..(i + 6) : \A k \in i..(j - 1) : Ch(s, k) = "#"})

\* end of (?:U+1F6E0 U+FE0F|U+1F527|U+1F6E0|:wrench:)? at position i, the
\* alternatives tried in this order
WrenchEnd(s, i) ==
    IF LitAtCI(s, i, "U+1F6E0U+FE0F") THEN i + Len("U+1F6E0U+FE0F")
    ELSE IF LitAtCI(s, i, "U+1F527") THEN i + Len("U+1F527")
    ELSE IF LitAtCI(s, i, "U+1F6E0") THEN i + Len("U+1F6E0")
    ELSE IF LitAtCI(s, i, ":wrench:") THEN i + Len(":wrench:")
    ELSE i

\* [ \t]*#{0,6}[ \t]*(?:...)?[ \t]*Code[ \t]+Suggestions matches at position q
\* (flag i); the rest of the pattern, :?[\s\S]*$, matches whatever follows.
\* The classes of the successive runs are disjoint, so the greedy runs are
\* the only way to match.
HeadingAt(s, q) ==
    LET code == SkipBlanks(s, WrenchEnd(s, SkipBlanks(s, HashesEnd(s, SkipBlanks(s, q)))))
        word == SkipBlanks(s, code + Len("Code"))
    IN /\ LitAtCI(s, code, "Code")
       /\ word > code + Len("Code")
       /\ LitAtCI(s, word, "Suggestions")

\* FileMarkerAt that knows the plain marker only
FileMarkerAtPlain(s, q) == LitAtCI(s, SkipBlanks(s, q), "File:")

\* [ \t]*(?:\*\*File:|File:) matches at position q (flag i)
FileMarkerAt(s, q) ==
    \/ LitAtCI(s, SkipBlanks(s, q), "**File:")
    \/ LitAtCI(s, SkipBlanks(s, q), "File:")

\* the positions behind (?:\r?\n|^) matched at position p; without the flag
\* m, ^ is the start of the text only
AfterLineStart(s, p) ==
    (IF Ch(s, p) = "\n" THEN {p + 1} ELSE {})
    \cup (IF Ch(s, p) = "\r" /\ Ch(s, p + 1) = "\n" THEN {p + 2} ELSE {})
    \cup (IF p = 1 THEN {1} ELSE {})

\* s.replace(/(?:\r?\n|^)<rest>[\s\S]*$/i, '') for the set hits of the positions
\* where the pattern matches: the text before the leftmost match, the whole
\* text when there is none
replaceToEnd(s, hits) == IF hits = {} THEN s ELSE SubSeq(s, 1, SetMin(hits) - 1)

\* (consolidated || '').replace(...).replace(...).trim()
stripSuggestions(text) ==
    LET headings(s) == {p \in 1..Len(s) : \E q \in AfterLineStart(s, p) : HeadingAt(s, q)}
        markers(s) == {p \in 1..Len(s) : \E q \in AfterLineStart(s, p) : FileMarkerAt(s, q)}
        unheaded == replaceToEnd(text, headings(text))
    IN trim(replaceToEnd(unheaded, markers(unheaded)))

\* if (Array.isArray(contextFindings) && contextFindings.length)
\*   consolidatedBody += '\n\n## Context Checks\n' + contextFindings.map(...).join('\n')
withContextChecks(body, findings) ==
    IF Len(findings) > 0
    THEN body \o "\n\n## Context Checks\n"
              \o join([k \in 1..Len(findings) |-> "- " \o findings[k]])
    ELSE body

\* findings as collectContextChecks words them
FindingChoices ==
    {"JS import missing: './gone' referenced in lib/util.js (no candidate file found at head)",
     "Version bump mismatch: PR says bump 'left-pad' to 1.3.0, but '@latest' is used in changes."}

(***************************************************************************)
(* The single-call scripts (explain, summarize, docs, single-prompt        *)
(* suggest): one generation call, then one comment                         *)
(***************************************************************************)
Scripts == {"explain", "summarize", "docs", "suggest"}

\* the label of the provider in the messages of its generateWith... function
ProviderLabel(p) ==
    IF p = "CHATGPT" THEN "ChatGPT" ELSE IF p = "GEMINI" THEN "Gemini" ELSE "Claude"

\* the message of the error a provider SDK or the HTTP call raises
ApiFailure(p) ==
    IF p = "GEMINI" THEN "Gemini HTTP 500: Internal Server Error"
    ELSE "500 status code (no body)"

\* the try block of main: the provider chain and generateWithChatGPT /
\* generateWithGemini / generateWithClaude, for the answer r of the API
\* ("HTTP 500" stands for a failed call, "" for an answer without content)
generate(p, keySet, r) ==
    IF p \notin {"CHATGPT", "GEMINI", "CLAUDE"}
    THEN [threw |-> TRUE, message |-> "Unknown provider: " \o p, text |-> ""]
    ELSE IF ~keySet
    THEN [threw |-> TRUE, message |-> p \o "_API_KEY is not set.", text |-> ""]
    ELSE IF r = "HTTP 500"
    THEN [threw |-> TRUE, message |-> ApiFailure(p), text |-> ""]
    ELSE IF r = ""
    THEN [threw |-> TRUE, message |-> ProviderLabel(p) \o " returned no content.", text |-> ""]
    ELSE [threw |-> FALSE, message |-> "", text |-> r]

\* the body of the comment posted in the catch block
errorNotice(sc, p, message) ==
    (IF sc = "explain" THEN "**[Aido Explain ERROR]** Failed to generate explanation"
     ELSE IF sc = "summarize" THEN "**[AIDO Summarize ERROR]** Failed to generate summary"
     ELSE IF sc = "docs" THEN "**[Aido Docs ERROR]** Failed to generate documentation"
     ELSE "**[Aido Suggest ERROR]** Failed to generate suggestions")
    \o " with provider '" \o p \o "'.\n\nDetails: " \o message

\* modelUsed, with no model set in the configuration
modelUsed(p) ==
    IF p = "CHATGPT" THEN "gpt-4o-mini"
    ELSE IF p = "CLAUDE" THEN "claude-3-5-sonnet-latest"
    ELSE "gemini-2.5-flash"

\* sanitizeFences of the suggest script; in a text without code fences, the
\* only texts drawn here, none of its replace calls finds anything
sanitizeFences(text) == IF text = "" THEN "" ELSE text

\* the body of the result comment: header, text, footer
resultComment(sc, p, text) ==
    IF sc = "explain"
    THEN "## U+1F4D8 Aido PR Explanation\n\n" \o text
         \o "\n\n  ---\n  _Response generated using " \o modelUsed(p) \o "_"
    ELSE IF sc = "summarize"
    THEN "## U+1F4DD AIDO PR Summary\n\n" \o text
         \o "\n\n---\n_Response generated using " \o modelUsed(p) \o "_"
    ELSE IF sc = "docs"
    THEN "## U+1F4DA Aido Docs Draft\n\n" \o text
         \o "\n\n---\n_This is an AI-generated documentation draft. Please review, edit, "
         \o "and commit changes as appropriate._\n\n_Response generated using "
         \o modelUsed(p) \o "_"
    ELSE "## U+2728 Aido Suggestions (Concrete improvements & small refactors)\n\n"
         \o sanitizeFences(text)
         \o "\n\n  ---\n  _Response generated using " \o modelUsed(p) \o "_"

\* a catch block that posts the notice and does not rethrow
afterNoticeSwallowed == [pc |-> "result", exitCode |-> -1]

\* `throw e` behind the notice, and main().catch: process.exit(1)
afterNotice == [pc |-> "exited", exitCode |-> 1]

(***************************************************************************)
(* The per-file suggest script: for each changed file one generation call  *)
(* and at most one reformat call, then one comment for the whole run       *)
(***************************************************************************)
\* patch.trim() is empty: `continue`
noTextualPatch(f) == trim(f.patch) = ""

\* (text.match(/```/g) || []).length: in a run of backquotes a match starts
\* at every third one
CountFences(t) ==
    LET RunStart(i) == SetMax({0} \cup {j \in 1..i : Ch(t, j) # Tick}) + 1
    IN Cardinality({i \in 1..Len(t) : LitAt(t, i, Fence) /\ (i - RunStart(i)) % 3 = 0})

ContractMust ==
    {"Rationale:", "File:", "Replace this:", "With this:", "Estimated Risk:", "Estimated Effort:"}

\* positions where /^Rationale:/m matches
RationaleLines(t) ==
    {i \in 1..Len(t) : LitAt(t, i, "Rationale:") /\ (i = 1 \/ Ch(t, i - 1) \in {"\n", "\r"})}

isContractCompliant(t) ==
    LET \* preLines: the non-blank lines before the first Rationale: line
        NonBlank(ls) == SelectSeq(ls, LAMBDA l : trim(l) # "")
        \* titleLine, "" standing for preLines.length === 0
        Title(preLines) == IF preLines = <<>> THEN "" ELSE trim(preLines[Len(preLines)])
        TitleOk(titleLine) ==
            /\ titleLine # ""
            /\ \A p \in ContractMust \cup {Fence} : ~startsWith(titleLine, p)
        Before(at) == SubSeq(t, 1, at - 1)
    IN /\ t # ""
       /\ \A m \in ContractMust : includes(t, m)
       /\ RationaleLines(t) # {}
       /\ TitleOk(Title(NonBlank(split(Before(SetMin(RationaleLines(t)))))))
       /\ CountFences(t) % 2 = 0

\* the characters lo..hi of t without those at the positions drops (the text
\* is halved to keep the recursion shallow)
RECURSIVE Without(_, _, _, _)
Without(t, drops, lo, hi) ==
    IF lo > hi THEN ""
    ELSE IF lo = hi THEN (IF lo \in drops THEN "" ELSE Ch(t, lo))
    ELSE Without(t, drops, lo, (lo + hi) \div 2) \o Without(t, drops, (lo + hi) \div 2 + 1, hi)

\* out.replace(/```suggestion/g, '```'): the word is dropped behind each such fence
dropSuggestionTags(t) ==
    LET tags == {i \in 1..Len(t) : LitAt(t, i, Fence \o "suggestion")}
    IN Without(t, {k \in 1..Len(t) : \E i \in tags : k \in (i + 3)..(i + 12)}, 1, Len(t))

sanitizeFencesKeepBackticks(t) ==
    LET Closed(out) == IF CountFences(out) % 2 # 0 THEN out \o "\n" \o Fence ELSE out
    IN IF t = "" THEN "" ELSE Closed(dropSuggestionTags(t))

\* new RegExp(`^File:\\s*${f.filename}\\s*$`, 'm') is a SyntaxError ("nothing
\* to repeat"): the file name is pasted into the pattern unescaped, and of the
\* file names drawn here the one with "++" is no pattern
fileLinePatternThrows(filename) == includes(filename, "++")

\* the pattern made of a file name of word characters, "/", "-" and ".":
\* "." stands for any character but a line terminator, the others for themselves
NameMatchesAt(t, j, filename) ==
    /\ j + Len(filename) - 1 <= Len(t)
    /\ \A k \in 1..Len(filename) :
          IF Ch(filename, k) = "." THEN Ch(t, j + k - 1) \notin {"\n", "\r"}
          ELSE Ch(t, j + k - 1) = Ch(filename, k)

\* new RegExp(`^File:\\s*${f.filename}\\s*$`, 'm').test(text)
hasCorrectFileLine(t, filename) ==
    \E i \in 1..Len(t) :
        /\ LitAt(t, i, "File:")
        /\ i = 1 \/ Ch(t, i - 1) \in {"\n", "\r"}
        /\ \E j \in (i + 5)..SpacesEnd(t, i + 5) :
              /\ NameMatchesAt(t, j, filename)
              /\ Ch(t, SpacesEnd(t, j + Len(filename))) \in {"", "\n", "\r"}
                 \/ \E e \in (j + Len(filename))..SpacesEnd(t, j + Len(filename)) :
                       Ch(t, e) \in {"\n", "\r"}

\* lines.splice(idx, 0, `File: ${f.filename}`) before the first line that
\* trims to "Replace this:", or the File line put in front
insertFileLine(ensured, filename) ==
    LET Spliced(lines, hits) ==
            IF hits = {} THEN "File: " \o filename \o "\n" \o ensured
            ELSE join(SubSeq(lines, 1, SetMin(hits) - 1) \o <<"File: " \o filename>>
                      \o SubSeq(lines, SetMin(hits), Len(lines)))
        At(lines) == Spliced(lines, {k \in 1..Len(lines) : trim(lines[k]) = "Replace this:"})
    IN At(split(ensured))

\* the entry pushed for a text whose trim is not empty
ensured(t, filename) ==
    IF hasCorrectFileLine(t, filename) THEN trim(t) ELSE insertFileLine(trim(t), filename)

\* the note pushed in the catch block
unableNote(filename) ==
    "Unable to analyze " \o filename
    \o "\n\nRationale: The provider returned an error for this file.\n\nFile: " \o filename
    \o "\nReplace this:\n" \o Fence \o "\n// (no change)\n" \o Fence
    \o "\n\nWith this:\n" \o Fence \o "\n// (no change)\n" \o Fence
    \o "\n\nEstimated Risk: Low\nEstimated Effort: XS"

\* the only entry when allSuggestions.length === 0
noTextualChanges ==
    "No textual changes detected\n\nRationale: No textual diffs were available to analyze.\n\n"
    \o "File: (n/a)\nReplace this:\n" \o Fence \o "\n// (no change)\n" \o Fence
    \o "\n\nWith this:\n" \o Fence \o "\n// (no change)\n" \o Fence
    \o "\n\nEstimated Risk: Low\nEstimated Effort: XS"

\* allSuggestions.join('\n\n---\n\n')
RECURSIVE joinEntries(_)
joinEntries(entries) ==
    IF entries = <<>> THEN ""
    ELSE IF Len(entries) = 1 THEN entries[1]
    ELSE entries[1] \o "\n\n---\n\n" \o joinEntries(Tail(entries))

\* const body = `${header}\n${allSuggestions.join(...)}${footer}`
suggestBody(entries, p) ==
    "## U+2728 Aido Suggestions (Concrete improvements & small refactors)\n\n"
    \o joinEntries(IF entries = <<>> THEN <<noTextualChanges>> ELSE entries)
    \o "\n\n---\n_Response generated using " \o modelUsed(p) \o "_"

\* a reformat pass made for every text, compliant or not
needsReformatAlways(t) == t # ""

\* if (text && !isContractCompliant(text))
needsReformat(t) == t # "" /\ ~isContractCompliant(t)

\* if (isContractCompliant(reformatted)) text = reformatted
keptAfterReformat(t, reformatted) == IF isContractCompliant(reformatted) THEN reformatted ELSE t

\* a catch block that rethrows, so that main().catch ends the run
catchProviderErrorRethrowing == [pc |-> "exited", exitCode |-> 1]

\* catch (e) { console.error(...); allSuggestions.push(note) } and the loop goes on
catchProviderError == [pc |-> "loop", exitCode |-> -1]

\* Math.floor(max * 0.7); for the budgets 6000 and 15000 the product of the
\* doubles is the integer 7 * max / 10
truncateHead(m) == (7 * m) \div 10

\* str.slice(start) of JavaScript, start counted from 0 and from the end when negative
slice(s, start) ==
    IF start < 0 THEN From(s, MaxOf(Len(s) + start, 0) + 1)
    ELSE From(s, start + 1)

\* truncate whose tail leaves out the room of the marker
truncateWithFullTail(s, m) ==
    IF s = "" THEN ""
    ELSE IF Len(s) <= m THEN s
    ELSE substring0(s, truncateHead(m)) \o "\n...\n[truncated]\n...\n"
         \o slice(s, 0 - (m - truncateHead(m)))

truncate(s, m) ==
    IF s = "" THEN ""
    ELSE IF Len(s) <= m THEN s
    ELSE substring0(s, truncateHead(m)) \o "\n...\n[truncated]\n...\n"
         \o slice(s, 0 - (m - truncateHead(m) - 30))

(***************************************************************************)
(* collectContextChecks: the Python import checks and the check of the PR  *)
(* description                                                             *)
(***************************************************************************)
\* null of getContentAtSha and of resolvePyModulePath
NoPath == ""

\* path.dirname(p) of a relative path
dirname(p) ==
    LET slashes == {i \in 1..Len(p) : Ch(p, i) = "/"}
    IN IF slashes = {} THEN "." ELSE SubSeq(p, 1, SetMax(slashes) - 1)

\* for (let i = 1; i < dots; i++) dir = path.dirname(dir)
RECURSIVE dirnameTimes(_, _)
dirnameTimes(dir, n) == IF n <= 0 THEN dir ELSE dirnameTimes(dirname(dir), n - 1)

\* path.join(dir, rel) of a relative directory and a relative path
pathJoin(dir, rel) == IF dir = "." THEN rel ELSE dir \o "/" \o rel

\* rest.replace(/\./g, '/')
RECURSIVE dotsToSlashes(_)
dotsToSlashes(s) ==
    IF Len(s) <= 1 THEN (IF s = "." THEN "/" ELSE s)
    ELSE dotsToSlashes(SubSeq(s, 1, Len(s) \div 2)) \o dotsToSlashes(From(s, Len(s) \div 2 + 1))

\* the length of the greedy group (\.+) of moduleName.match(/^(\.+)(.*)$/)
LeadingDots(s) == SetMin({j \in 1..(Len(s) + 1) : Ch(s, j) # "."}) - 1

resolvePyModulePath(baseDir, moduleName) ==
    IF moduleName = "" THEN NoPath
    ELSE IF startsWith(moduleName, ".")
    THEN pathJoin(dirnameTimes(baseDir, LeadingDots(moduleName) - 1),
                  IF From(moduleName, LeadingDots(moduleName) + 1) # ""
                  THEN dotsToSlashes(From(moduleName, LeadingDots(moduleName) + 1)) \o ".py"
                  ELSE "__init__.py")
    ELSE NoPath

\* getContentAtSha(owner, repo, filePath, headSha) against the contents repo
\* of the head commit: the content, or null when the lookup throws
getContentAtSha(repo, filePath) ==
    IF filePath \in DOMAIN repo THEN repo[filePath] ELSE NoPath

\* the classes [a-zA-Z0-9_.] and [a-zA-Z0-9_.*, \t] of importFromRe
IsModCh(c) == IsWordCh(c) \/ c = "."
IsImportCh(c) == IsWordCh(c) \/ c \in {".", "*", ",", " ", "\t"}
ModEnd(s, i) == SetMin({j \in i..(Len(s) + 1) : ~IsModCh(Ch(s, j))})
ImportEnd(s, i) == SetMin({j \in i..(Len(s) + 1) : ~IsImportCh(Ch(s, j))})

\* the assertions ^ and $ under the flag m, and the end of the run .*
AtLineStart(s, p) == p = 1 \/ Ch(s, p - 1) \in {"\n", "\r"}
AtLineEnd(s, p) == p = Len(s) + 1 \/ Ch(s, p) \in {"\n", "\r"}
LineEnd(s, p) == SetMin({j \in p..(Len(s) + 1) : AtLineEnd(s, j)})

\* the positions behind \s* from e on at which (?:#.*)?$ matches
TailStarts(s, e) == {t \in e..SpacesEnd(s, e) : Ch(s, t) = "#" \/ AtLineEnd(s, t)}

\* where \s*(?:#.*)?$ ends when matched from e on, the longest \s* first
TailEnd(s, e) ==
    IF Ch(s, SetMax(TailStarts(s, e))) = "#" THEN LineEnd(s, SetMax(TailStarts(s, e)))
    ELSE SetMax(TailStarts(s, e))

NoImport == [found |-> FALSE, mod |-> "", imported |-> "", end |-> 0]

\* the match of
\*   /^\s*from\s+([a-zA-Z0-9_.]+)\s+import\s+([a-zA-Z0-9_.*, \t]+)\s*(?:#.*)?$/gm
\* that starts at the line start p; only the \s+ before the second group and
\* the group itself can give characters back, because the second group also
\* takes blanks and tabs
ImportFromAt(s, p) ==
    LET \* fromAt, modAt, importAt: where 'from', the first group and 'import' begin
        Listed(fromAt, modAt, importAt) ==
            LET \* the starts of the second group, and its ends for a start
                ends(s2) == {e2 \in (s2 + 1)..ImportEnd(s, s2) : TailStarts(s, e2) # {}}
                starts == {s2 \in (importAt + 7)..SpacesEnd(s, importAt + 6) :
                              IsImportCh(Ch(s, s2)) /\ ends(s2) # {}}
                Group(s2, e2) == [found |-> TRUE,
                                  mod |-> SubSeq(s, modAt, ModEnd(s, modAt) - 1),
                                  imported |-> SubSeq(s, s2, e2 - 1),
                                  end |-> TailEnd(s, e2)]
                From2(s2) == Group(s2, SetMax(ends(s2)))
            IN IF /\ LitAt(s, fromAt, "from")
                  /\ modAt > fromAt + 4
                  /\ ModEnd(s, modAt) > modAt
                  /\ importAt > ModEnd(s, modAt)
                  /\ LitAt(s, importAt, "import")
                  /\ starts # {}
               THEN From2(SetMax(starts))
               ELSE NoImport
        AfterMod(fromAt, modAt) == Listed(fromAt, modAt, SpacesEnd(s, ModEnd(s, modAt)))
        AfterFrom(fromAt) == AfterMod(fromAt, SpacesEnd(s, fromAt + 4))
    IN AfterFrom(SpacesEnd(s, p))

\* while ((m = importFromRe.exec(src)) !== null): the groups of the
\* successive matches, each search starting where the last match ended
RECURSIVE importFromMatches(_, _)
importFromMatches(s, from) ==
    LET hits == {p \in from..Len(s) : AtLineStart(s, p) /\ ImportFromAt(s, p).found}
        Then(m) == <<[mod |-> m.mod, imported |-> m.imported]>> \o importFromMatches(s, m.end)
    IN IF hits = {} THEN <<>> ELSE Then(ImportFromAt(s, SetMin(hits)))

\* imported.split(',')
RECURSIVE splitComma(_)
splitComma(s) ==
    LET commas == {i \in 1..Len(s) : Ch(s, i) = ","}
    IN IF commas = {} THEN <<s>>
       ELSE <<SubSeq(s, 1, SetMin(commas) - 1)>> \o splitComma(From(s, SetMin(commas) + 1))

\* the start of the run of \s that ends at position i (i + 1 when there is none)
SpacesStart(s, i) == SetMin({j \in 1..(i + 1) : \A k \in j..i : IsSpace(Ch(s, k))})

\* the start of the run of [A-Za-z0-9_] that ends the text
LastWordStart(s) == SetMin({j \in 1..(Len(s) + 1) : \A k \in j..Len(s) : IsWordCh(Ch(s, k))})

\* t.replace(/\s+as\s+[A-Za-z0-9_]+$/, '')
stripAs(t) ==
    LET Cut(w, b) ==
            IF /\ w <= Len(t)
               /\ b < w
               /\ LitAt(t, b - 2, "as")
               /\ SpacesStart(t, b - 3) < b - 2
            THEN SubSeq(t, 1, SpacesStart(t, b - 3) - 1)
            ELSE t
        Before(w) == Cut(w, SpacesStart(t, w - 1))
    IN Before(LastWordStart(t))

\* imported.split(',').map((s) => s.trim().replace(...)).filter(Boolean)
importedFuncs(imported) ==
    LET parts == splitComma(imported)
    IN SelectSeq([k \in 1..Len(parts) |-> stripAs(trim(parts[k]))], LAMBDA fn : fn # "")

\* new RegExp(`^\\s*def\\s+${fn}\\s*\\(`, 'm') throws a SyntaxError (nothing to
\* repeat) when a * of fn follows the + of \s+ or another *; the other
\* characters an import list can hold are word characters, '.', blank and tab
fnPatternThrows(fn) == startsWith(fn, "*") \/ includes(fn, "**")

\* the text of fn read as a regular expression: a character stands for
\* itself, '.' for any character but a line terminator, and a '*' repeats
\* the element before it
AtomMatches(a, c) == c # "" /\ (IF a = "." THEN c \notin {"\n", "\r"} ELSE a = c)
StepOver(a, text, J) == {j + 1 : j \in {k \in J : AtomMatches(a, Ch(text, k))}}

RECURSIVE StarOver(_, _, _)
StarOver(a, text, J) ==
    IF StepOver(a, text, J) \subseteq J THEN J
    ELSE StarOver(a, text, J \cup StepOver(a, text, J))

\* the positions at which a match of pat[i..] can end when started at one of J
RECURSIVE PatternEnds(_, _, _, _)
PatternEnds(pat, i, text, J) ==
    IF i > Len(pat) \/ J = {} THEN J
    ELSE IF Ch(pat, i + 1) = "*"
    THEN PatternEnds(pat, i + 2, text, StarOver(Ch(pat, i), text, J))
    ELSE PatternEnds(pat, i + 1, text, StepOver(Ch(pat, i), text, J))

\* fnRe.test(modContent), for a fn whose pattern compiles
fnDefined(modContent, fn) ==
    \E p \in 1..Len(modContent) :
        /\ AtLineStart(modContent, p)
        /\ LitAt(modContent, SpacesEnd(modContent, p), "def")
        /\ \E e \in PatternEnds(fn, 1, modContent,
                                (SpacesEnd(modContent, p) + 4)
                                  ..SpacesEnd(modContent, SpacesEnd(modContent, p) + 3)) :
              Ch(modContent, SpacesEnd(modContent, e)) = "("

NoThrow == [threw |-> FALSE, findings |-> <<>>]

\* for (const fn of funcs): the findings pushed, up to a fn whose pattern
\* does not compile
RECURSIVE checkFuncs(_, _, _, _)
checkFuncs(funcs, modContent, mod, filename) ==
    LET Rest(found, r) == [threw |-> r.threw, findings |-> found \o r.findings]
    IN IF funcs = <<>> THEN NoThrow
       ELSE IF fnPatternThrows(funcs[1]) THEN [threw |-> TRUE, findings |-> <<>>]
       ELSE Rest(IF fnDefined(modContent, funcs[1]) THEN <<>>
                 ELSE <<"Python function not found: '" \o funcs[1] \o "' in module '" \o mod
                        \o "' referenced by " \o filename>>,
                 checkFuncs(Tail(funcs), modContent, mod, filename))

\* the body of the while loop for one match m of importFromRe in the file
\* filename: what it pushes, and whether it throws
checkPyImport(m, filename, changed, repo) ==
    LET Known(mod, imported, modPath) ==
            IF modPath = NoPath \/ modPath \in changed THEN NoThrow
            ELSE IF getContentAtSha(repo, modPath) = ""
            THEN [threw |-> FALSE,
                  findings |-> <<"Python import missing: '" \o mod \o "' referenced in "
                                 \o filename \o " (expected " \o modPath \o ")">>]
            ELSE IF imported # "*" /\ imported # ""
            THEN checkFuncs(importedFuncs(imported), getContentAtSha(repo, modPath),
                            mod, filename)
            ELSE NoThrow
        Relative(mod, imported) ==
            IF startsWith(mod, ".")
            THEN Known(mod, imported, resolvePyModulePath(dirname(filename), mod))
            ELSE NoThrow
    IN Relative(trim(m.mod), trim(m.imported))

\* the classes [@a-z0-9._/-] and [\w.-] of bumpRe (flag i)
IsPkgCh(c) == IsWordCh(c) \/ c \in {"@", ".", "/", "-"}
IsVerCh(c) == IsWordCh(c) \/ c \in {".", "-"}
PkgEnd(s, i) == SetMin({j \in i..(Len(s) + 1) : ~IsPkgCh(Ch(s, j))})
VerEnd(s, i) == SetMin({j \in i..(Len(s) + 1) : ~IsVerCh(Ch(s, j))})

NoBump == [found |-> FALSE, pkg |-> "", toV |-> ""]

\* the match of
\*   /bump\s+([@a-z0-9._/-]+)\s+from\s+([0-9][\w.-]*)\s+to\s+([0-9][\w.-]*)/i
\* that starts at position i
BumpAt(s, i) ==
    LET AfterTo(pkgAt, toAt) ==
            LET toV == SpacesEnd(s, toAt + 2)
            IN IF LitAtCI(s, toAt, "to") /\ toV > toAt + 2 /\ IsDigit(Ch(s, toV))
               THEN [found |-> TRUE,
                     pkg |-> SubSeq(s, pkgAt, PkgEnd(s, pkgAt) - 1),
                     toV |-> SubSeq(s, toV, VerEnd(s, toV + 1) - 1)]
               ELSE NoBump
        AfterFrom(pkgAt, fromAt) ==
            LET fromV == SpacesEnd(s, fromAt + 4)
            IN IF /\ LitAtCI(s, fromAt, "from")
                  /\ fromV > fromAt + 4
                  /\ IsDigit(Ch(s, fromV))
                  /\ SpacesEnd(s, VerEnd(s, fromV + 1)) > VerEnd(s, fromV + 1)
               THEN AfterTo(pkgAt, SpacesEnd(s, VerEnd(s, fromV + 1)))
               ELSE NoBump
        AfterBump(pkgAt) ==
            IF /\ LitAtCI(s, i, "bump")
               /\ pkgAt > i + 4
               /\ PkgEnd(s, pkgAt) > pkgAt
               /\ SpacesEnd(s, PkgEnd(s, pkgAt)) > PkgEnd(s, pkgAt)
            THEN AfterFrom(pkgAt, SpacesEnd(s, PkgEnd(s, pkgAt)))
            ELSE NoBump
    IN AfterBump(SpacesEnd(s, i + 4))

\* prb.match(bumpRe): the leftmost match
bumpMatch(prb) ==
    LET hits == {i \in 1..Len(prb) : BumpAt(prb, i).found}
    IN IF hits = {} THEN NoBump ELSE BumpAt(prb, SetMin(hits))

\* Object.values(fileContents).join('\n'): the contents of the changed files
\* that getContentAtSha returned, in the order of files
RECURSIVE fileContentsJoined(_, _)
fileContentsJoined(fs, repo) ==
    IF fs = <<>> THEN <<>>
    ELSE (IF getContentAtSha(repo, fs[1].filename) # ""
          THEN <<getContentAtSha(repo, fs[1].filename)>> ELSE <<>>)
         \o fileContentsJoined(Tail(fs), repo)

\* new RegExp(`${pkg}@latest`, 'i').test(contents); pkg holds no character
\* that keeps the pattern from compiling
usesLatest(pkg, contents) ==
    PatternEnds(toLowerCase(pkg) \o "@latest", 1, toLowerCase(contents), 1..Len(contents)) # {}

\* the if (checkDesc) block: the findings it pushes
checkDescription(prBodyText, contents) ==
    LET Bumped(b) ==
            IF b.found /\ contents # "" /\ usesLatest(b.pkg, contents)
            THEN <<"Version bump mismatch: PR says bump '" \o b.pkg \o "' to " \o b.toV
                   \o ", but '@latest' is used in changes.">>
            ELSE <<>>
    IN IF trim(prBodyText) = "" THEN <<>> ELSE Bumped(bumpMatch(trim(prBodyText)))

\* the two switches of reviewerCfg, true unless the configuration sets them
verifyRefsOf(cfg) ==
    IF "verifyReferences" \in DOMAIN cfg THEN cfg["verifyReferences"] ELSE TRUE
checkDescOf(cfg) ==
    IF "checkDescriptionConsistency" \in DOMAIN cfg
    THEN cfg["checkDescriptionConsistency"] ELSE TRUE

\* files.filter((x) => x.filename.endsWith('.py'))
pyFiles(fs) == SelectSeq(fs, LAMBDA f : endsWith(f.filename, ".py"))

\* the matches of importFromRe in the Python files, each with its file
RECURSIVE pyImportsOf(_, _)
pyImportsOf(fs, repo) ==
    LET InFile(filename, ms) == [k \in 1..Len(ms) |-> [file |-> filename, m |-> ms[k]]]
    IN IF fs = <<>> THEN <<>>
       ELSE InFile(fs[1].filename, importFromMatches(getContentAtSha(repo, fs[1].filename), 1))
            \o pyImportsOf(Tail(fs), repo)

(***************************************************************************)
(* Values of the variables a specification does not use                    *)
(***************************************************************************)
NoValidation == [threw |-> FALSE, valid |-> FALSE, reason |-> "", actualCode |-> ""]

DiffIdle == /\ patch = ""
            /\ lineIdx = 0
            /\ newLineNum = 0
            /\ lineMap = EmptyMap

BodyIdle == /\ contextFindings = <<>>
            /\ consolidated = ""
            /\ consolidatedBody = ""
            /\ reviewBody = ""
            /\ postOutcome = ""

MainIdle == /\ files = <<>>
           /\ answer = <<>>
           /\ markdown = ""
           /\ blocks = <<>>
           /\ suggestions = <<>>
           /\ lineMaps = EmptyMap
           /\ vIdx = 0
           /\ validation = NoValidation
           /\ validated = <<>>
           /\ comments = <<>>
           /\ reviewEvent = ""
           /\ reviewCalls = 0
           /\ exitCode = -1

RunIdle == MainIdle /\ BodyIdle

PosIdle == /\ targetLine = 0
           /\ position = 0
           /\ positioned = <<>>

SingleIdle == /\ script = ""
              /\ provider = ""
              /\ apiKeySet = FALSE
              /\ reply = ""
              /\ generated = ""
              /\ thrown = ""
              /\ commentCalls = <<>>
              /\ prComments = <<>>

PerFileIdle == /\ ctxFiles = <<>>
               /\ fIdx = 0
               /\ fileText = ""
               /\ calls = <<>>
               /\ allSuggestions = <<>>

TruncIdle == /\ str = ""
             /\ max = 0
             /\ truncated = ""

CtxIdle == /\ repoAtHead = EmptyMap
           /\ prBody = ""
           /\ reviewerCfg = EmptyMap
           /\ pyImports = <<>>

RestIdle == PerFileIdle /\ TruncIdle /\ CtxIdle

SideIdle == PosIdle /\ SingleIdle /\ RestIdle

SeqsUpTo(S, n) == UNION {[1..k -> S] : k \in 0..n}

(***************************************************************************)
(* SpecDiff: buildLineMap run line by line over bounded patch texts        *)
(***************************************************************************)
MaxPatchLines == 4

PatchLineChoices ==
    {"@@ -1,2 +1,3 @@",     \* hunk header with counts
     "@@ -7 +5 @@ fn()",    \* hunk header without counts, with a section heading
     "@@ -1 +0,0 @@",       \* hunk header whose new start is 0
     "@@ malformed",        \* starts with @@ but is no hunk header
     "+ab",                 \* addition
     " cd",                 \* context
     "-ef",                 \* deletion
     ""}                    \* none of these

DiffPatches == {join(ls) : ls \in SeqsUpTo(PatchLineChoices, MaxPatchLines)}

InitDiff ==
    /\ pc = "build"
    /\ SideIdle
    /\ patch \in DiffPatches
    /\ lineIdx = 1
    /\ newLineNum = 0
    /\ lineMap = EmptyMap
    /\ RunIdle

\* one iteration of `for (const line of lines)`
BuildLine ==
    /\ pc = "build"
    /\ UNCHANGED sideVars
    /\ lineIdx <= Len(split(patch))
    /\ LET st == LineStep([newLineNum |-> newLineNum, lineMap |-> lineMap],
                          split(patch)[lineIdx])
       IN /\ newLineNum' = st.newLineNum
          /\ lineMap' = st.lineMap
    /\ lineIdx' = lineIdx + 1
    /\ UNCHANGED <<pc, patch>>
    /\ UNCHANGED runVars

\* `return lineMap`
BuildReturn ==
    /\ pc = "build"
    /\ UNCHANGED sideVars
    /\ lineIdx > Len(split(patch))
    /\ pc' = "built"
    /\ UNCHANGED diffVars
    /\ UNCHANGED runVars

NextDiff == BuildLine \/ BuildReturn

SpecDiff == InitDiff /\ [][NextDiff]_vars

(***************************************************************************)
(* SpecPosition: findPositionInPatch applied to a patch and a line number  *)
(***************************************************************************)
MaxPosLines == 3
MaxPosTarget == 4

PosLineChoices ==
    {"@@ -1,2 +1,3 @@",     \* hunk header with counts
     "@@ -7 +2 @@ fn()",    \* hunk header without counts, with a section heading
     "@@ -1 +0,0 @@",       \* hunk header whose new start is 0
     "@@ -1, +3, @@",       \* commas without counts
     "+ab",                 \* addition
     " cd",                 \* context
     "-ef"}                 \* deletion

PosPatches == {join(ls) : ls \in SeqsUpTo(PosLineChoices, MaxPosLines)}

InitPosition ==
    /\ pc = "find"
    /\ patch \in PosPatches
    /\ lineIdx = 0
    /\ newLineNum = 0
    /\ lineMap = EmptyMap
    /\ RunIdle
    /\ SingleIdle
    /\ RestIdle
    /\ targetLine \in 0..MaxPosTarget
    /\ position = 0
    /\ positioned = <<>>

\* the older parseSuggestions, for a candidate whose line label starts with
\* targetLine: const position = findPositionInPatch(file.patch, startLine);
\* if (!position || position < 1) continue; suggestions.push({..., position, ...})
FindPosition ==
    /\ pc = "find"
    /\ position' = findPositionInPatch(patch, targetLine)
    /\ positioned' = IF position' = 0 \/ position' < 1 THEN <<>>
                     ELSE <<[startLine |-> targetLine, position |-> position']>>
    /\ pc' = "found"
    /\ UNCHANGED <<diffVars, runVars, singleVars, restVars, targetLine>>

NextPosition == FindPosition

SpecPosition == InitPosition /\ [][NextPosition]_vars

(***************************************************************************)
(* SpecBody: the review body built from a consolidated text and findings   *)
(***************************************************************************)
MaxFindings == 2

\* what stands before the summary of a consolidated text
BodyLeads == {"", "\n", "  ", "\f", "\r\n"}

\* summaries; the second names the markers in the middle of its lines
BodySummaries ==
    {"",
     "Looks good.\nRecommendation: Approve",
     "The File: label and the Code Suggestions: label are parsed.\n- File: a.js is fine"}

BodySeps == {"\n", "\r\n", "\n\n"}

\* what follows the summary: nothing, restated suggestions under a heading
\* or without one, and lines that resemble them
BodyTails ==
    {"",
     "## Code Suggestions:\n**File: a.js**\n**Lines: 1**",
     "### U+1F527 code  suggestions\nFile: a.js\nLine: 1",
     "\t:wrench: Code Suggestions\n- use const",
     "**File: src/app.php**\n**Lines: 3-5**\n**Issue:** Reorder",
     "  File: a.js\nLine: 2\n\nFile: b.js\nLine: 3",
     "file: a.js\nline: 2",
     "####### Code Suggestions",
     "4) Code Suggestions\n\n**File: a.js**\n**Lines: 1**",
     "- File: a.js"}

BodyTexts ==
    {lead \o summary \o (IF summary # "" /\ tail # "" THEN sep ELSE "") \o tail :
        lead \in BodyLeads, summary \in BodySummaries, sep \in BodySeps, tail \in BodyTails}

InitBody ==
    /\ pc = "body"
    /\ DiffIdle
    /\ SideIdle
    /\ MainIdle
    /\ consolidated \in BodyTexts
    /\ contextFindings \in SeqsUpTo(FindingChoices, MaxFindings)
    /\ consolidatedBody = ""
    /\ reviewBody = ""
    /\ postOutcome = ""

\* let consolidatedBody = (consolidated || '').replace(...).replace(...).trim();
\* if (... contextFindings.length) consolidatedBody += ...
BuildBody ==
    /\ pc = "body"
    /\ consolidatedBody' = withContextChecks(stripSuggestions(consolidated), contextFindings)
    /\ pc' = "bodyBuilt"
    /\ UNCHANGED <<diffVars, sideVars, files, answer, markdown, blocks, suggestions, lineMaps,
                   vIdx, validation, validated, comments, reviewEvent, reviewCalls, exitCode,
                   contextFindings, consolidated, reviewBody, postOutcome>>

NextBody == BuildBody

SpecBody == InitBody /\ [][NextBody]_vars

(***************************************************************************)
(* SpecSingle: a run of a single-call script from its generation call on   *)
(***************************************************************************)
ProviderChoices == {"CHATGPT", "GEMINI", "CLAUDE", "MISTRAL"}

ReplyChoices == {"", "HTTP 500", "Adds a retry to the fetch helper.", "- rename tmp to total"}

InitSingle ==
    /\ pc = "generate"
    /\ DiffIdle
    /\ RunIdle
    /\ PosIdle
    /\ RestIdle
    /\ script \in Scripts
    /\ provider \in ProviderChoices
    /\ apiKeySet \in BOOLEAN
    /\ reply \in ReplyChoices
    /\ generated = ""
    /\ thrown = ""
    /\ commentCalls = <<>>
    /\ prComments = <<>>

\* try { explanation = await generateWith...(prompt, ...) } catch (e) { ... }
Generate ==
    /\ pc = "generate"
    /\ LET g == generate(provider, apiKeySet, reply)
       IN /\ generated' = g.text
          /\ thrown' = g.message
          /\ pc' = IF g.threw THEN "notice" ELSE "result"
    /\ UNCHANGED <<diffVars, runVars, posVars, restVars, script, provider, apiKeySet, reply,
                   commentCalls, prComments>>

\* catch (e) { await postComment(..., notice); throw e }, the host accepting
\* the comment
PostNoticeOk ==
    /\ pc = "notice"
    /\ commentCalls' = Append(commentCalls, errorNotice(script, provider, thrown))
    /\ prComments' = Append(prComments, errorNotice(script, provider, thrown))
    /\ pc' = afterNotice.pc
    /\ exitCode' = afterNotice.exitCode
    /\ UNCHANGED <<diffVars, runVarsButExit, posVars, restVars, script, provider, apiKeySet, reply,
                   generated, thrown>>

\* the same with createComment rejecting: the rejection leaves the catch
\* block and reaches main().catch
PostNoticeFails ==
    /\ pc = "notice"
    /\ commentCalls' = Append(commentCalls, errorNotice(script, provider, thrown))
    /\ pc' = "exited"
    /\ exitCode' = 1
    /\ UNCHANGED <<diffVars, runVarsButExit, posVars, restVars, script, provider, apiKeySet, reply,
                   generated, thrown, prComments>>

\* await postComment(owner, repo, prNumber, header + text + footer) resolves
\* and main returns
PostResultOk ==
    /\ pc = "result"
    /\ commentCalls' = Append(commentCalls, resultComment(script, provider, generated))
    /\ prComments' = Append(prComments, resultComment(script, provider, generated))
    /\ pc' = "exited"
    /\ exitCode' = 0
    /\ UNCHANGED <<diffVars, runVarsButExit, posVars, restVars, script, provider, apiKeySet, reply,
                   generated, thrown>>

\* the same with createComment rejecting
PostResultFails ==
    /\ pc = "result"
    /\ commentCalls' = Append(commentCalls, resultComment(script, provider, generated))
    /\ pc' = "exited"
    /\ exitCode' = 1
    /\ UNCHANGED <<diffVars, runVarsButExit, posVars, restVars, script, provider, apiKeySet, reply,
                   generated, thrown, prComments>>

NextSingle ==
    \/ Generate
    \/ PostNoticeOk
    \/ PostNoticeFails
    \/ PostResultOk
    \/ PostResultFails

SpecSingle == InitSingle /\ [][NextSingle]_vars

(***************************************************************************)
(* SpecPerFile: a run of the per-file suggest script from its for loop on  *)
(***************************************************************************)
MaxSuggestFiles == 2

CompliantText ==
    "Use const\n\nRationale: Never reassigned.\n\nFile: app.php\nReplace this:\n"
    \o Fence \o "\nlet a = 1;\n" \o Fence \o "\n\nWith this:\n" \o Fence \o "suggestion\nconst a = 1;\n"
    \o Fence \o "\n\nEstimated Risk: Low\nEstimated Effort: XS"

UntitledText ==
    "Rationale: Never reassigned.\n\nFile: src/app.php\nReplace this:\n"
    \o Fence \o "\nlet a = 1;\n" \o Fence \o "\n\nWith this:\n" \o Fence \o "\nconst a = 1;\n"
    \o Fence \o "\n\nEstimated Risk: Low\nEstimated Effort: XS"

\* the texts a provider call returns (never empty: generateWith... throws then)
TextChoices == {CompliantText, UntitledText, "Looks good to me.\n" \o Fence \o "js", " \n"}

\* the texts the reformat call returns
ReformatChoices == {CompliantText, "Looks good to me."}

SuggestFileChoices ==
    {[filename |-> "app.php", patch |-> "@@ -1 +1 @@\n-let a = 1;\n+var a = 1;"],
     [filename |-> "c++/main.cpp", patch |-> "@@ -0,0 +1 @@\n+int a;"],
     [filename |-> "logo.png", patch |-> " \n"]}

InitPerFile ==
    /\ pc = "loop"
    /\ DiffIdle
    /\ RunIdle
    /\ PosIdle
    /\ TruncIdle
    /\ CtxIdle
    /\ script = "suggest"
    /\ provider \in {"GEMINI", "MISTRAL"}
    /\ apiKeySet = TRUE
    /\ reply = ""
    /\ generated = ""
    /\ thrown = ""
    /\ commentCalls = <<>>
    /\ prComments = <<>>
    /\ ctxFiles \in SeqsUpTo(SuggestFileChoices, MaxSuggestFiles)
    /\ fIdx = 1
    /\ fileText = ""
    /\ calls = [k \in 1..Len(ctxFiles) |-> <<>>]
    /\ allSuggestions = <<>>

\* the variables a step of the for loop leaves alone
loopFrame == <<diffVars, runVarsButExit, posVars, truncVars, ctxVars, script, provider, apiKeySet,
               reply, generated, thrown, commentCalls, prComments, ctxFiles>>

\* if (!patch.trim()) continue
SkipFile ==
    /\ pc = "loop"
    /\ fIdx <= Len(ctxFiles)
    /\ noTextualPatch(ctxFiles[fIdx])
    /\ fIdx' = fIdx + 1
    /\ UNCHANGED <<loopFrame, pc, exitCode, fileText, calls, allSuggestions>>

\* the catch block of the loop body, for the file the loop is at
CatchInLoop ==
    /\ allSuggestions' = Append(allSuggestions, unableNote(ctxFiles[fIdx].filename))
    /\ pc' = catchProviderError.pc
    /\ exitCode' = catchProviderError.exitCode
    /\ fIdx' = fIdx + 1
    /\ fileText' = ""

\* text = await generateWith...(filePrompt, ...) returns r
GenerateReturns ==
    /\ pc = "loop"
    /\ fIdx <= Len(ctxFiles)
    /\ ~noTextualPatch(ctxFiles[fIdx])
    /\ provider \in {"CHATGPT", "GEMINI", "CLAUDE"}
    /\ \E r \in TextChoices :
          /\ calls' = [calls EXCEPT ![fIdx] =
                          Append(@, [kind |-> "generate", threw |-> FALSE, text |-> r])]
          /\ fileText' = r
          /\ pc' = IF needsReformat(r) THEN "reformat" ELSE "push"
    /\ UNCHANGED <<loopFrame, exitCode, fIdx, allSuggestions>>

\* the generation call throws (no key, HTTP failure, no content), or the
\* provider is unknown and no call is made
GenerateThrows ==
    /\ pc = "loop"
    /\ fIdx <= Len(ctxFiles)
    /\ ~noTextualPatch(ctxFiles[fIdx])
    /\ calls' = IF provider \in {"CHATGPT", "GEMINI", "CLAUDE"}
                THEN [calls EXCEPT ![fIdx] =
                         Append(@, [kind |-> "generate", threw |-> TRUE, text |-> ""])]
                ELSE calls
    /\ CatchInLoop
    /\ UNCHANGED loopFrame

\* const reformatted = await reformatToContract(provider, model, text) returns r
ReformatReturns ==
    /\ pc = "reformat"
    /\ \E r \in ReformatChoices :
          /\ calls' = [calls EXCEPT ![fIdx] =
                          Append(@, [kind |-> "reformat", threw |-> FALSE, text |-> r])]
          /\ fileText' = keptAfterReformat(fileText, r)
    /\ pc' = "push"
    /\ UNCHANGED <<loopFrame, exitCode, fIdx, allSuggestions>>

\* reformatToContract throws
ReformatThrows ==
    /\ pc = "reformat"
    /\ calls' = [calls EXCEPT ![fIdx] =
                    Append(@, [kind |-> "reformat", threw |-> TRUE, text |-> ""])]
    /\ CatchInLoop
    /\ UNCHANGED loopFrame

\* text = sanitizeFencesKeepBackticks(text); if (text.trim()) { ...
\* allSuggestions.push(ensured) }, new RegExp throwing into the catch block
PushEntry ==
    /\ pc = "push"
    /\ \E out \in {sanitizeFencesKeepBackticks(fileText)} :
          IF trim(out) = ""
          THEN /\ fIdx' = fIdx + 1
               /\ fileText' = out
               /\ pc' = "loop"
               /\ UNCHANGED <<exitCode, allSuggestions>>
          ELSE IF fileLinePatternThrows(ctxFiles[fIdx].filename)
          THEN CatchInLoop
          ELSE /\ allSuggestions' = Append(allSuggestions, ensured(out, ctxFiles[fIdx].filename))
               /\ fIdx' = fIdx + 1
               /\ fileText' = out
               /\ pc' = "loop"
               /\ UNCHANGED exitCode
    /\ UNCHANGED <<loopFrame, calls>>

\* after the loop: await postComment(owner, repo, prNumber, body) resolves
PostSuggestionsOk ==
    /\ pc = "loop"
    /\ fIdx > Len(ctxFiles)
    /\ commentCalls' = Append(commentCalls, suggestBody(allSuggestions, provider))
    /\ prComments' = Append(prComments, suggestBody(allSuggestions, provider))
    /\ pc' = "exited"
    /\ exitCode' = 0
    /\ UNCHANGED <<diffVars, runVarsButExit, posVars, restVars, script, provider, apiKeySet,
                   reply, generated, thrown>>

\* the same with createComment rejecting: main().catch, process.exit(1)
PostSuggestionsFails ==
    /\ pc = "loop"
    /\ fIdx > Len(ctxFiles)
    /\ commentCalls' = Append(commentCalls, suggestBody(allSuggestions, provider))
    /\ pc' = "exited"
    /\ exitCode' = 1
    /\ UNCHANGED <<diffVars, runVarsButExit, posVars, restVars, script, provider, apiKeySet,
                   reply, generated, thrown, prComments>>

NextPerFile ==
    \/ SkipFile
    \/ GenerateReturns
    \/ GenerateThrows
    \/ ReformatReturns
    \/ ReformatThrows
    \/ PushEntry
    \/ PostSuggestionsOk
    \/ PostSuggestionsFails

SpecPerFile == InitPerFile /\ [][NextPerFile]_vars

(***************************************************************************)
(* SpecTruncate: truncate applied to one text under one budget             *)
(***************************************************************************)
\* DIFF_MAX_CHARS of the per-file script and of the scripts that send one diff
Budgets == {6000, 15000}

\* how far below and above the budget the lengths of the texts go
MaxOver == 30

\* a text of numbered lines "lo\n" ... "hi\n"
RECURSIVE NumberedLines(_, _)
NumberedLines(lo, hi) ==
    IF lo > hi THEN ""
    ELSE IF lo = hi THEN numToString(lo) \o "\n"
    ELSE NumberedLines(lo, (lo + hi) \div 2) \o NumberedLines(((lo + hi) \div 2) + 1, hi)

\* 18888 characters, longer than both budgets
LongText == NumberedLines(1, 3999)

\* the lengths of the texts handed to truncate under the budget m
LengthsFor(m) == {0, 1, m + 2000, Len(LongText)} \cup ((m - MaxOver)..(m + MaxOver))

InitTruncate ==
    /\ pc = "truncate"
    /\ DiffIdle
    /\ RunIdle
    /\ PosIdle
    /\ SingleIdle
    /\ PerFileIdle
    /\ CtxIdle
    /\ max \in Budgets
    /\ \E n \in LengthsFor(max) : str = substring0(LongText, n)
    /\ truncated = ""

\* truncate(str, max) returns
Truncate ==
    /\ pc = "truncate"
    /\ truncated' = truncate(str, max)
    /\ pc' = "returned"
    /\ UNCHANGED <<diffVars, runVars, posVars, singleVars, perFileVars, ctxVars, str, max>>

NextTruncate == Truncate

SpecTruncate == InitTruncate /\ [][NextTruncate]_vars

(***************************************************************************)
(* SpecContext: collectContextChecks on changed Python files               *)
(***************************************************************************)
\* the changed files: a Python file alone, or with the module it imports.
\* None is a JavaScript or TypeScript file, so the loop of the JS/TS import
\* checks runs over no file.
AppPy == [filename |-> "pkg/app.py", patch |-> "@@ -1 +1,2 @@\n import os\n+from .mod import a"]
ModPy == [filename |-> "pkg/mod.py", patch |-> "@@ -1 +1 @@\n+def a(x):"]

ContextFiles == {<<AppPy>>, <<AppPy, ModPy>>}

\* what pkg/app.py may hold at the head commit
PySources ==
    {"from .mod import a\n",
     "import os\nfrom .mod import a as f, b  # helpers\n",
     "from .mod import a, *\n",
     "from .mod import *\n",
     "from os import path\nprint('left-pad@latest')\n",
     "  from ..util import a\n\nfrom . import b"}

\* what pkg/mod.py may hold at the head commit
ModSources == {"def a(x):\n    return x\n", "import os\n\ndef  b ():\n    pass\n"}

\* the answers of the host: the lookup of each of the two files succeeds with
\* one of its contents, or fails
RepoChoices ==
    {EmptyMap}
    \cup {[x \in {"pkg/app.py"} |-> src] : src \in PySources}
    \cup {[x \in {"pkg/mod.py"} |-> msrc] : msrc \in ModSources}
    \cup {[x \in {"pkg/app.py", "pkg/mod.py"} |-> IF x = "pkg/app.py" THEN src ELSE msrc] :
             src \in PySources, msrc \in ModSources}

PrBodyChoices == {"", "Refactor the imports", " Bump left-pad from 1.2.0 to 1.3.0\n"}

CfgChoices ==
    {EmptyMap,
     [x \in {"verifyReferences"} |-> FALSE],
     [x \in {"checkDescriptionConsistency"} |-> FALSE],
     [x \in {"verifyReferences", "checkDescriptionConsistency"} |-> FALSE]}

InitContext ==
    /\ pc = "context"
    /\ DiffIdle
    /\ PosIdle
    /\ SingleIdle
    /\ PerFileIdle
    /\ TruncIdle
    /\ files \in ContextFiles
    /\ answer = <<>>
    /\ markdown = ""
    /\ blocks = <<>>
    /\ suggestions = <<>>
    /\ lineMaps = EmptyMap
    /\ vIdx = 0
    /\ validation = NoValidation
    /\ validated = <<>>
    /\ comments = <<>>
    /\ reviewEvent = ""
    /\ reviewCalls = 0
    /\ exitCode = -1
    /\ BodyIdle
    /\ repoAtHead \in RepoChoices
    /\ prBody \in PrBodyChoices
    /\ reviewerCfg \in CfgChoices
    /\ pyImports = <<>>

\* the variables collectContextChecks leaves alone
contextFrame == <<diffVars, posVars, singleVars, perFileVars, truncVars, files, answer, markdown,
                  blocks, suggestions, lineMaps, vIdx, validation, validated, comments,
                  reviewEvent, reviewCalls, consolidated, consolidatedBody, reviewBody,
                  postOutcome, repoAtHead, prBody, reviewerCfg>>

\* if (!verifyRefs && !checkDesc) return findings
ReturnNoChecks ==
    /\ pc = "context"
    /\ ~verifyRefsOf(reviewerCfg) /\ ~checkDescOf(reviewerCfg)
    /\ contextFindings' = <<>>
    /\ pc' = "consolidate"
    /\ UNCHANGED <<contextFrame, exitCode, pyImports>>

\* the contents of the changed files are fetched; with verifyRefs the
\* Python import checks begin
FetchContents ==
    /\ pc = "context"
    /\ verifyRefsOf(reviewerCfg) \/ checkDescOf(reviewerCfg)
    /\ contextFindings' = <<>>
    /\ IF verifyRefsOf(reviewerCfg)
       THEN /\ pyImports' = pyImportsOf(pyFiles(files), repoAtHead)
            /\ pc' = "imports"
       ELSE /\ pyImports' = <<>>
            /\ pc' = "description"
    /\ UNCHANGED <<contextFrame, exitCode>>

changedSet == {files[k].filename : k \in 1..Len(files)}

\* one turn of the while loop over the matches of importFromRe
CheckPyImport ==
    /\ pc = "imports"
    /\ pyImports # <<>>
    /\ \E r \in {checkPyImport(pyImports[1].m, pyImports[1].file, changedSet, repoAtHead)} :
          /\ ~r.threw
          /\ contextFindings' = contextFindings \o r.findings
    /\ pyImports' = Tail(pyImports)
    /\ UNCHANGED <<contextFrame, pc, exitCode>>

\* one turn of the while loop in which new RegExp throws: the promise of
\* collectContextChecks rejects, main rejects, and main().catch logs the
\* error and calls process.exit(1)
CheckPyImportThrows ==
    /\ pc = "imports"
    /\ pyImports # <<>>
    /\ checkPyImport(pyImports[1].m, pyImports[1].file, changedSet, repoAtHead).threw
    /\ pc' = "exited"
    /\ exitCode' = 1
    /\ UNCHANGED <<contextFrame, contextFindings, pyImports>>

\* the loops of the import checks are over
ImportsChecked ==
    /\ pc = "imports"
    /\ pyImports = <<>>
    /\ pc' = "description"
    /\ UNCHANGED <<contextFrame, contextFindings, exitCode, pyImports>>

\* if (checkDesc) { ... } return findings; main goes on to the LLM calls
CheckDescription ==
    /\ pc = "description"
    /\ contextFindings' =
           contextFindings
           \o (IF checkDescOf(reviewerCfg)
               THEN checkDescription(prBody, join(fileContentsJoined(files, repoAtHead)))
               ELSE <<>>)
    /\ pc' = "consolidate"
    /\ UNCHANGED <<contextFrame, exitCode, pyImports>>

NextContext ==
    \/ ReturnNoChecks
    \/ FetchContents
    \/ CheckPyImport
    \/ CheckPyImportThrows
    \/ ImportsChecked
    \/ CheckDescription

SpecContext == InitContext /\ [][NextContext]_vars

(***************************************************************************)
(* SpecValidate: validateSuggestion applied to one candidate               *)
(***************************************************************************)
\* the patch of the file the candidates target: new-file lines 1..6
ValPatch ==
    join(<<"@@ -1,4 +1,6 @@",
           "+if (!valid) return false;",
           "+if (isset($users[$name])) {",
           " foo(a);",
           "-old(a);",
           "+let result = calculate(input);",
           "+const x = compute(a, b);",
           "+return result;">>)

\* a patch without a hunk header, whose index is empty
HunklessPatch == "+foo(a);\n bar(b);"

ValPatches == {ValPatch, HunklessPatch}

\* candidates target the lines 0..MaxTargetLine
MaxTargetLine == 7

CodeChoices ==
    {"doSomething();",
     "print('hello world');",
     "let result = calculateValue(input);",
     "bar(b);",
     "a = b;",
     "if (!valid) return null;",
     "if (!valid) return result;",
     "if ($users[$name] !== null) {",
     "foreach ($users as $name) { valid($name); }",
     "",
     "let result = calculate(input);\nfoo(a);\nconst x = compute(a, b);",
     "foo(a);\nlet result = calculate(input);\nconst x = compute(b, a);",
     "var result = calculate(arg);\nprint(arg, value, other);"}

IssueChoices ==
    {"Simplify the code",
     "Remove redundant isset check",
     "Skip validation here"}

InitValidate ==
    /\ pc = "validate"
    /\ SideIdle
    /\ patch \in ValPatches
    /\ lineIdx = 0
    /\ newLineNum = 0
    /\ lineMap = buildLineMap(patch)
    /\ files = <<>>
    /\ answer = <<>>
    /\ markdown = ""
    /\ blocks = <<>>
    /\ \E startLine \in 0..MaxTargetLine, endLine \in 0..MaxTargetLine,
          code \in CodeChoices, issue \in IssueChoices :
            suggestions = <<[path |-> "src/app.php", issue |-> issue, code |-> code,
                             startLine |-> startLine, endLine |-> endLine,
                             priority |-> "MEDIUM"]>>
    /\ lineMaps = EmptyMap
    /\ vIdx = 1
    /\ validation = NoValidation
    /\ validated = <<>>
    /\ comments = <<>>
    /\ reviewEvent = ""
    /\ reviewCalls = 0
    /\ exitCode = -1
    /\ BodyIdle

\* const validation = validateSuggestion(s, lineMap)
ValidateOne ==
    /\ pc = "validate"
    /\ UNCHANGED sideVars
    /\ validation' = validateSuggestion(suggestions[vIdx], lineMap)
    /\ pc' = "verdict"
    /\ UNCHANGED <<diffVars, files, answer, markdown, blocks, suggestions, lineMaps, vIdx,
                   validated, comments, reviewEvent, reviewCalls, exitCode, bodyVars>>

NextValidate == ValidateOne

SpecValidate == InitValidate /\ [][NextValidate]_vars

(***************************************************************************)
(* Spec: the run of main() from the parsed LLM text to the posted review   *)
(***************************************************************************)
MaxBlocks == 2

AppFile == [filename |-> "src/app.php", patch |-> ValPatch]
UtilFile == [filename |-> "lib/util.js", patch |-> "@@ -3 +3,2 @@\n foo(a);\n+bar(b);"]
\* two files of which one is named like the other followed by ":3"
ColonFile == [filename |-> "a.js:3", patch |-> "@@ -4 +4 @@\n+bar(b);"]
PlainFile == [filename |-> "a.js", patch |-> "@@ -3 +3 @@\n+foo(a);"]

FilesChoices ==
    {<<AppFile, UtilFile>>, <<ColonFile, PlainFile>>, <<PlainFile, ColonFile>>}

\* the findings of a run: none, or one
RunFindings ==
    {<<>>,
     <<"JS import missing: './gone' referenced in lib/util.js (no candidate file found at head)">>}

\* the consolidated text of a run: a summary alone, or a summary followed
\* by a restated suggestion
RunConsolidated ==
    {"The change is small and safe.\nRecommendation: Approve",
     "The call is renamed.\nRecommendation: Request changes\n\n## Code Suggestions\n"
       \o "**File: src/app.php**\n**Lines: 4**\n**Issue:** Rename call"}

\* a suggestion block in the format the prompt asks for; the Priority line is
\* left out when prioRaw is ""
Block(fileLabel, linesLabel, issue, prioRaw, code) ==
    "File: " \o fileLabel \o "\nLines: " \o linesLabel \o "\nIssue: " \o issue
    \o (IF prioRaw = "" THEN "" ELSE "\nPriority: " \o prioRaw)
    \o "\nSuggestion:\n" \o Fence \o "suggestion\n" \o code \o "\n" \o Fence

\* the same block written with bold markers, a quoted path and blank lines
BoldBlock(fileLabel, linesLabel, issue, prioRaw, code) ==
    "**File: " \o Tick \o fileLabel \o Tick \o "**\n**Line: " \o linesLabel
    \o "**\n**Issue: " \o issue \o "**\n**Priority: " \o prioRaw
    \o "**\n\n**Suggestion:**\n\n" \o Fence \o "js\n" \o code \o "\n" \o Fence

\* what the provider may answer about AppFile and UtilFile: blocks that
\* differ in the verdict of the validator,
RenameBlock == Block("src/app.php", "4", "Rename call", "High", "let result = calculateValue(input);")
UtilBlock == Block("lib/util.js", "4", "Rename call", "High", "baz(b);")

VerdictBlocks ==
    {RenameBlock,
     Block("src/app.php", "1", "Simplify", "", "doSomething();"),
     Block("app.php", "3-5", "Reorder", "Urgent",
           "let result = calculate(input);\nfoo(a);\nconst x = compute(a, b);"),
     Block("src/app.php", "9-3", "Tidy up", "Medium", "bar(b);"),
     Block("src/app.php", "5-6", "Inline", "Critical", "const x = compute(a, b);\nreturn x;")}

ReadmeBlock == Block("README.md", "1", "Typo", "Low", "text")
NoNumberBlock == Block("src/app.php", "first", "No number", "Low", "foo(b);")
\* a block about a file that was not changed, with nothing after its Suggestion marker
EmptyBlock == "File: README.md\nLines: 1\nIssue: Nothing to change\nPriority: Low\nSuggestion:"

\* blocks that the parser skips or deduplicates,
SkippedBlocks ==
    {RenameBlock,
     UtilBlock,
     EmptyBlock,
     BoldBlock("src/app.php", "4", "RENAME CALL", " low ", "let result = calc(input);"),
     ReadmeBlock,
     NoNumberBlock}

\* and blocks in which one required marker is missing
MalformedBlocks ==
    {"Lines: 4\nIssue: No file\nSuggestion:\n" \o Fence \o "suggestion\nfoo(b);\n" \o Fence,
     "File: src/app.php\nIssue: No lines\nSuggestion:\n" \o Fence \o "suggestion\nfoo(b);\n"
        \o Fence,
     "File: src/app.php\nLines: 4\nSuggestion:\n" \o Fence \o "suggestion\nfoo(b);\n" \o Fence,
     "File: src/app.php\nLines: 4\nIssue: No marker\n" \o Fence \o "suggestion\nfoo(b);\n"
        \o Fence}

\* what the provider may answer about ColonFile and PlainFile
ColonBlocks ==
    {Block("src/a.js", "3", "4:fix", "Urgent", "foo(b);"),
     Block("a.js:3", "4", "fix", "High", "bar(a);"),
     Block("a.js", "4", "Fix", "Low", "baz(a);")}

\* the blocks of one answer are drawn from one of these sets
BlockSetsFor(fs) ==
    IF fs[1] = AppFile
    THEN {VerdictBlocks, SkippedBlocks, MalformedBlocks \cup {RenameBlock, UtilBlock}}
    ELSE {ColonBlocks}

\* the answer of the provider: its blocks separated by blank lines
RECURSIVE Paragraphs(_)
Paragraphs(parts) ==
    IF parts = <<>> THEN ""
    ELSE IF Len(parts) = 1 THEN parts[1]
    ELSE parts[1] \o "\n\n" \o Paragraphs(Tail(parts))

Init ==
    /\ pc = "start"
    /\ SideIdle
    /\ DiffIdle
    /\ files \in FilesChoices
    /\ answer \in UNION {SeqsUpTo(S, MaxBlocks) : S \in BlockSetsFor(files)}
    /\ markdown = ""
    /\ blocks = <<>>
    /\ suggestions = <<>>
    /\ lineMaps = EmptyMap
    /\ vIdx = 0
    /\ validation = NoValidation
    /\ validated = <<>>
    /\ comments = <<>>
    /\ reviewEvent = ""
    /\ reviewCalls = 0
    /\ exitCode = -1
    /\ BodyIdle

\* for (const file of files) lineMaps.set(file.filename, buildLineMap(file.patch))
BuildLineMaps ==
    /\ pc = "start"
    /\ UNCHANGED sideVars
    /\ lineMaps' = [name \in {files[k].filename : k \in 1..Len(files)} |->
                      LET last == SetMax({k \in 1..Len(files) : files[k].filename = name})
                      IN buildLineMap(files[last].patch)]
    /\ pc' = "context"
    /\ UNCHANGED <<diffVars, files, answer, markdown, blocks, suggestions, vIdx, validation,
                   validated, comments, reviewEvent, reviewCalls, exitCode, bodyVars>>

\* const contextFindings = await collectContextChecks(...): a list of advisory
\* strings computed from the file contents at the head commit and the PR
\* description, which the run reads and this model draws from RunFindings
CollectContextChecks ==
    /\ pc = "context"
    /\ UNCHANGED sideVars
    /\ contextFindings' \in RunFindings
    /\ pc' = "consolidate"
    /\ UNCHANGED <<diffVars, files, answer, markdown, blocks, suggestions, lineMaps, vIdx,
                   validation, validated, comments, reviewEvent, reviewCalls, exitCode,
                   consolidated, consolidatedBody, reviewBody, postOutcome>>

\* consolidated = await reviewClaude / reviewChatGPT / reviewGemini(consolidatedPrompt, model)
ReviewConsolidated ==
    /\ pc = "consolidate"
    /\ UNCHANGED sideVars
    /\ consolidated' \in RunConsolidated
    /\ pc' = "suggest"
    /\ UNCHANGED <<diffVars, files, answer, markdown, blocks, suggestions, lineMaps, vIdx,
                   validation, validated, comments, reviewEvent, reviewCalls, exitCode,
                   contextFindings, consolidatedBody, reviewBody, postOutcome>>

\* suggestionsOnlyText = await reviewClaude / reviewChatGPT / reviewGemini(...)
ReviewSuggestionsOnly ==
    /\ pc = "suggest"
    /\ UNCHANGED sideVars
    /\ markdown' = Paragraphs(answer)
    /\ pc' = "parse"
    /\ UNCHANGED <<diffVars, files, answer, blocks, suggestions, lineMaps, vIdx, validation,
                   validated, comments, reviewEvent, reviewCalls, exitCode, bodyVars>>

\* let suggestions = parseSuggestions(suggestionsOnlyText, files)
ParseSuggestions ==
    /\ pc = "parse"
    /\ UNCHANGED sideVars
    /\ \E parsed \in {parseSuggestions(markdown, files)} :
           /\ blocks' = parsed.matches
           /\ suggestions' = parsed.unique
    /\ vIdx' = 1
    /\ pc' = "validate"
    /\ UNCHANGED <<diffVars, files, answer, markdown, lineMaps, validation, validated,
                   comments, reviewEvent, reviewCalls, exitCode, bodyVars>>

\* pushIfValid that also drops a valid suggestion when context findings exist
pushUnlessFindings(list, sg, v) ==
    IF v.valid /\ contextFindings = <<>> THEN Append(list, sg) ELSE list

\* pushIfValid with the slip of leaving out the `continue` of a rejected verdict
pushAlways(list, sg, v) == Append(list, sg)

\* if (!validation.valid) continue; validated.push(s)
pushIfValid(list, sg, v) == IF v.valid THEN Append(list, sg) ELSE list

\* one iteration of `for (const s of suggestions)`; an exception thrown by
\* validateSuggestion is not caught in main and reaches main().catch, which
\* ends the process with exit code 1
ValidateNext ==
    /\ pc = "validate"
    /\ UNCHANGED sideVars
    /\ vIdx <= Len(suggestions)
    /\ LET sg == suggestions[vIdx]
       IN IF sg.path \notin DOMAIN lineMaps
          THEN /\ vIdx' = vIdx + 1
               /\ UNCHANGED <<pc, validation, validated, exitCode>>
          ELSE \E v \in {validateSuggestion(sg, lineMaps[sg.path])} :
                  /\ validation' = v
                  /\ IF v.threw
                     THEN /\ pc' = "exited"
                          /\ exitCode' = 1
                          /\ UNCHANGED <<vIdx, validated>>
                     ELSE /\ vIdx' = vIdx + 1
                          /\ validated' = pushIfValid(validated, sg, v)
                          /\ UNCHANGED <<pc, exitCode>>
    /\ UNCHANGED <<diffVars, files, answer, markdown, blocks, suggestions, lineMaps,
                   comments, reviewEvent, reviewCalls, bodyVars>>

\* the priority emoji, named by its code point
priorityEmoji(priority) ==
    IF priority = "URGENT" THEN "U+1F534"
    ELSE IF priority = "HIGH" THEN "U+1F7E0"
    ELSE IF priority = "LOW" THEN "U+1F7E2"
    ELSE "U+1F7E1"

\* the callback of validated.map(...)
makeComment(sg) ==
    LET base == [path |-> sg.path,
                 body |-> priorityEmoji(sg.priority) \o " **[" \o sg.priority \o "]** "
                          \o sg.issue \o "\n\n" \o Fence \o "suggestion\n" \o sg.code
                          \o "\n" \o Fence,
                 line |-> IF sg.endLine # 0 THEN sg.endLine ELSE sg.startLine,
                 side |-> "RIGHT"]
    IN IF sg.endLine # 0 /\ sg.endLine # sg.startLine
       THEN base @@ [start_line |-> sg.startLine, start_side |-> "RIGHT"]
       ELSE base

\* reviewEventFor with the slip of asking for more than one comment
reviewEventForSeveral(cs) == IF Len(cs) > 1 THEN "REQUEST_CHANGES" ELSE "COMMENT"

\* const reviewEvent = comments.length > 0 ? 'REQUEST_CHANGES' : 'COMMENT'
reviewEventFor(cs) == IF Len(cs) > 0 THEN "REQUEST_CHANGES" ELSE "COMMENT"

\* after the loop: const comments = validated.map(...); let consolidatedBody
\* = ...; const reviewEvent = ...
BuildReview ==
    /\ pc = "validate"
    /\ UNCHANGED sideVars
    /\ vIdx > Len(suggestions)
    /\ comments' = [k \in 1..Len(validated) |-> makeComment(validated[k])]
    /\ consolidatedBody' = withContextChecks(stripSuggestions(consolidated), contextFindings)
    /\ reviewEvent' = reviewEventFor(comments')
    /\ pc' = "post"
    /\ UNCHANGED <<diffVars, files, answer, markdown, blocks, suggestions, lineMaps, vIdx,
                   validation, validated, reviewCalls, exitCode, contextFindings,
                   consolidated, reviewBody, postOutcome>>

\* the body of the payload: (consolidatedBody || default) + footer
reviewBodyFor(body) ==
    (IF body # "" THEN body
     ELSE "U+1F916 Consolidated AI review attached with inline suggestions.")
    \o "\n\n---\n_Response generated using " \o model \o "_"

\* await octokit.pulls.createReview(...) resolves
PostReviewOk ==
    /\ pc = "post"
    /\ UNCHANGED sideVars
    /\ reviewCalls' = reviewCalls + 1
    /\ reviewBody' = reviewBodyFor(consolidatedBody)
    /\ postOutcome' = "created"
    /\ pc' = "exited"
    /\ exitCode' = 0
    /\ UNCHANGED <<diffVars, files, answer, markdown, blocks, suggestions, lineMaps, vIdx,
                   validation, validated, comments, reviewEvent, contextFindings,
                   consolidated, consolidatedBody>>

\* a catch block that swallows the error and lets the call be made again
catchCreateReviewRetrying == [pc |-> "post", exitCode |-> -1]

\* catch (error) { console.error(...); throw error } and main().catch(...):
\* where the run stands after createReview rejected
catchCreateReview == [pc |-> "exited", exitCode |-> 1]

\* await octokit.pulls.createReview(...) rejects: the error is logged and
\* rethrown, and main().catch ends the process with exit code 1
PostReviewFails ==
    /\ pc = "post"
    /\ UNCHANGED sideVars
    /\ reviewCalls' = reviewCalls + 1
    /\ reviewBody' = reviewBodyFor(consolidatedBody)
    /\ postOutcome' = "rejected"
    /\ pc' = catchCreateReview.pc
    /\ exitCode' = catchCreateReview.exitCode
    /\ UNCHANGED <<diffVars, files, answer, markdown, blocks, suggestions, lineMaps, vIdx,
                   validation, validated, comments, reviewEvent, contextFindings,
                   consolidated, consolidatedBody>>

Next ==
    \/ BuildLineMaps
    \/ CollectContextChecks
    \/ ReviewConsolidated
    \/ ReviewSuggestionsOnly
    \/ ParseSuggestions
    \/ ValidateNext
    \/ BuildReview
    \/ PostReviewOk
    \/ PostReviewFails

Spec == Init /\ [][Next]_vars

(***************************************************************************)
(* C1: line-counting fidelity of buildLineMap                              *)
(***************************************************************************)
\* The replay of the hunks as the claim words it: a hunk header sets the
\* counter to its newStart, a '+' or ' ' line after a header records an entry
\* at the counter and advances it, any other line does nothing.  With
\* zeroStartIgnored the lines of a hunk whose newStart is 0 record nothing.
RECURSIVE Replay(_, _, _, _, _, _)
Replay(lines, i, inHunk, counter, entries, zeroStartIgnored) ==
    IF i > Len(lines) THEN entries
    ELSE LET line == lines[i]
             first == Ch(line, 1)
         IN IF startsWith(line, "@@") /\ HunkHeaderMatch(line) # ""
            THEN LET newStart == parseInt(HunkHeaderMatch(line))
                 IN Replay(lines, i + 1, ~(zeroStartIgnored /\ newStart = 0), newStart,
                           entries, zeroStartIgnored)
            ELSE IF inHunk /\ first \in {"+", " "} /\ ~startsWith(line, "@@")
            THEN Replay(lines, i + 1, inHunk, counter + 1,
                        MapSet(entries, counter,
                               [exists |-> TRUE, content |-> From(line, 2),
                                type |-> IF first = "+" THEN "add" ELSE "context"]),
                        zeroStartIgnored)
            ELSE Replay(lines, i + 1, inHunk, counter, entries, zeroStartIgnored)

\* a step of the loop over a line that is no hunk header either leaves the
\* counter and the map alone or records exactly the counter and advances it by 1
C1_StepRecordsAtCounter ==
    (pc = "build" /\ lineIdx' = lineIdx + 1 /\ ~startsWith(split(patch)[lineIdx], "@@"))
    => \/ newLineNum' = newLineNum /\ lineMap' = lineMap
       \/ /\ newLineNum' = newLineNum + 1
          /\ DOMAIN lineMap' = (DOMAIN lineMap) \cup {newLineNum}
          /\ lineMap'[newLineNum].content = From(split(patch)[lineIdx], 2)

\* C1 (as stated): the keys of the map returned by buildLineMap are exactly the
\* line numbers of the replay in which every hunk header, whatever its
\* newStart, resets the counter and the following '+' and ' ' lines record.
C1_KeysAreReplayOfEveryHunk ==
    pc = "built" => DOMAIN lineMap = DOMAIN Replay(split(patch), 1, FALSE, 0, EmptyMap, FALSE)

\* C1 (amended): the map returned by buildLineMap is the replay of the hunks
\* whose newStart is at least 1 (key set, add/context tag and content without
\* the first character); the lines of a hunk whose newStart is 0, like the
\* lines before the first header, record nothing; deletion lines record nothing
\* and do not advance the counter; within a hunk the recorded numbers increase
\* strictly, each recording step using the counter and advancing it by 1.
C1_LineCountingFidelity ==
    /\ [](pc = "built" => lineMap = Replay(split(patch), 1, FALSE, 0, EmptyMap, TRUE))
    /\ [][C1_StepRecordsAtCounter]_vars

\* a patch with an addition, a deletion and a context line has been indexed
C1_Witness ==
    /\ pc = "built"
    /\ includes(patch, "\n-ef")
    /\ \E n \in DOMAIN lineMap : lineMap[n].type = "add"
    /\ \E n \in DOMAIN lineMap : lineMap[n].type = "context"

(***************************************************************************)
(* C4 - C8: the rules of validateSuggestion, checked under SpecValidate    *)
(***************************************************************************)
\* the candidate handed to validateSuggestion and what it computes from it
Candidate == suggestions[1]
CandLocals == Locals(Candidate, lineMap)
TargetLinesExist ==
    \A i \in Candidate.startLine..Candidate.endLine : i \in DOMAIN lineMap
GuardClauseRemoved ==
    CandLocals.actualStructure.hasEarlyReturn /\ ~CandLocals.suggestedStructure.hasEarlyReturn
ExistenceCheckRemoved ==
    /\ CandLocals.actualStructure.hasExistenceCheck
    /\ ~CandLocals.suggestedStructure.hasExistenceCheck
Rejected == ~validation.threw /\ ~validation.valid
Accepted == ~validation.threw /\ validation.valid

\* C4: a candidate whose target lines all exist, whose actual code has the
\* early-return-of-a-literal feature and whose suggested code has not, is
\* rejected with a reason that mentions the guard clause, whatever its issue
\* text, identifier overlap or code length.
C4_GuardClauseRejection ==
    (pc = "verdict" /\ TargetLinesExist /\ GuardClauseRemoved)
    => Rejected /\ includes(validation.reason, "guard clause/early return")

\* a guard clause replaced by code that keeps a return but no literal, and
\* shares identifiers with it, has been validated
C4_Witness ==
    /\ pc = "verdict"
    /\ TargetLinesExist
    /\ GuardClauseRemoved
    /\ CandLocals.suggestedStructure.hasReturn
    /\ CandLocals.commonIds # {}
    /\ Rejected

\* the issue texts of IssueChoices that mention removing or skipping a check
IssueMentionsRemoval ==
    Candidate.issue \in {"Remove redundant isset check", "Skip validation here"}
ExistenceReason == includes(validation.reason, "existence/validation check")

\* C5: a candidate not rejected by the line-existence or guard-clause rule
\* whose actual code has the existence-check feature and whose suggested code
\* has not is rejected with the existence/validation-check reason unless its
\* issue text mentions removing or skipping a check; when it does, the
\* verdict is not that reason.
C5_ExistenceCheckProtection ==
    (pc = "verdict" /\ TargetLinesExist /\ ~GuardClauseRemoved /\ ExistenceCheckRemoved)
    => IF IssueMentionsRemoval THEN ~ExistenceReason
       ELSE Rejected /\ ExistenceReason

\* an existence check removed under an issue text that says so has been accepted
C5_Witness ==
    /\ pc = "verdict"
    /\ TargetLinesExist
    /\ ~GuardClauseRemoved
    /\ ExistenceCheckRemoved
    /\ IssueMentionsRemoval
    /\ Accepted

\* C6: every accepted suggestion has an identifier overlap of at least 20%:
\* |common identifiers| / max(|actualIds|, |suggestedIds|) >= 0.20.
C6_AcceptedHasTwentyPercentOverlap ==
    (pc = "verdict" /\ Accepted /\ TargetLinesExist)
    => 5 * Cardinality(CandLocals.commonIds)
         >= MaxOf(Cardinality(CandLocals.actualIds), Cardinality(CandLocals.suggestedIds))

\* C7: a candidate of any range length whose target lines all exist, whose
\* actual and suggested code have the same structural features and whose
\* overlap ratio is at least 0.30 is accepted.
C7_SafeReplacementAccepted ==
    (/\ pc = "verdict"
     /\ TargetLinesExist
     /\ CandLocals.structuralChanges = {}
     /\ 10 * CandLocals.ratioNum >= 3 * CandLocals.ratioDen)
    => Accepted

\* the candidate is neither rejected nor accepted by a rule before the continuity check
ReachesContinuityCheck ==
    /\ TargetLinesExist
    /\ ~GuardClauseRemoved
    /\ ~(ExistenceCheckRemoved /\ ~IssueMentionsRemoval)
    /\ ~(isCompleteRewrite(CandLocals) /\ Cardinality(CandLocals.commonIds) < 2)
    /\ ~(Len(CandLocals.actualCode) < 20
         /\ (CandLocals.commonIds # {} \/ Len(CandLocals.suggestedCode) < 20))
    /\ ~(/\ CandLocals.actualIds # {}
         /\ CandLocals.suggestedIds # {}
         /\ 5 * CandLocals.ratioNum < CandLocals.ratioDen)

\* the first tokens of the two first lines exist, differ, are not common
\* identifiers, and the overlap ratio is below 0.30
StartsWithUnrelatedCode ==
    LET actualToken == getFirstToken(trim(CandLocals.actualLines[1]))
        suggestedToken == getFirstToken(trim(split(CandLocals.suggestedCode)[1]))
    IN /\ actualToken # ""
       /\ suggestedToken # ""
       /\ actualToken # suggestedToken
       /\ actualToken \notin CandLocals.commonIds
       /\ suggestedToken \notin CandLocals.commonIds
       /\ 10 * CandLocals.ratioNum < 3 * CandLocals.ratioDen

\* C8: a candidate that reaches the continuity check and spans 2 or more
\* lines is rejected with the multi-line reason when it starts with unrelated
\* code, and is accepted otherwise.
C8_MultiLineContinuity ==
    (/\ pc = "verdict"
     /\ ReachesContinuityCheck
     /\ Candidate.endLine - Candidate.startLine >= 1)
    => IF StartsWithUnrelatedCode
       THEN Rejected /\ includes(validation.reason, "Multi-line replacement starts with")
       ELSE Accepted

(***************************************************************************)
(* C2, C3, C9, C10: the run of main(), checked under Spec                  *)
(***************************************************************************)
\* the review payload has been built, or handed to createReview
PayloadBuilt == pc = "post" \/ reviewCalls > 0

\* C2: for every inline comment of the payload, every line from the
\* suggestion's startLine through its endLine, the comment's line and its
\* start_line are keys of the DiffIndex of the comment's file, whatever the
\* line label was (ranges N-M with M < N included).
C2_CommentLinesAreIndexed ==
    PayloadBuilt =>
        \A k \in 1..Len(comments) :
            LET index == DOMAIN lineMaps[comments[k].path]
            IN /\ \A i \in validated[k].startLine..validated[k].endLine : i \in index
               /\ comments[k].line \in index
               /\ "start_line" \in DOMAIN comments[k] => comments[k].start_line \in index

\* the parsed suggestions that validateSuggestion accepts, in parse order
AcceptedSuggestions ==
    SelectSeq(suggestions,
              LAMBDA sg : /\ sg.path \in DOMAIN lineMaps
                          /\ validateSuggestion(sg, lineMaps[sg.path]).valid)

\* C3: the comments handed to createReview are, in the same order, one
\* comment per parsed suggestion for which validateSuggestion returned
\* valid = true, and none for a rejected suggestion.
C3_CommentsAreAcceptedSuggestions ==
    PayloadBuilt =>
        /\ Len(comments) = Len(AcceptedSuggestions)
        /\ \A k \in 1..Len(comments) : comments[k] = makeComment(AcceptedSuggestions[k])

\* a review with one comment has been posted after two suggestions were
\* validated, one accepted and one rejected
C3_Witness ==
    /\ reviewCalls = 1
    /\ Len(suggestions) = 2
    /\ Len(comments) = 1
    /\ ~validation.threw

\* C9: validateSuggestion never throws, and a run never fails in the
\* validation loop: it ends with exit code 1 only when createReview failed.
C9_ValidationNeverFatal ==
    /\ ~validation.threw
    /\ exitCode = 1 => reviewCalls = 1

\* the key of the deduplication as the triple it stands for
KeyTriple(sg) == <<sg.path, sg.startLine, toLowerCase(sg.issue)>>

\* the candidates pushed by the parse loop, before the deduplication
ParsedBeforeDedup == parseBlocks(blocks, 1, files)

\* the first occurrence of every key triple, in parse order
RECURSIVE FirstOccurrences(_, _)
FirstOccurrences(sgs, i) ==
    IF i > Len(sgs) THEN <<>>
    ELSE IF \E j \in 1..(i - 1) : KeyTriple(sgs[j]) = KeyTriple(sgs[i])
    THEN FirstOccurrences(sgs, i + 1)
    ELSE <<sgs[i]>> \o FirstOccurrences(sgs, i + 1)

\* C10: in the list returned by parseSuggestions no two candidates share the
\* key (path, startLine, lower-cased issue); for each key the earliest-parsed
\* candidate is retained, and the retained candidates keep their parse order.
C10_Deduplication ==
    pc \notin {"start", "context", "consolidate", "suggest", "parse"} =>
        /\ \A i, j \in 1..Len(suggestions) :
               KeyTriple(suggestions[i]) = KeyTriple(suggestions[j]) => i = j
        /\ suggestions = FirstOccurrences(ParsedBeforeDedup, 1)

(***************************************************************************)
(* C11: file resolution of parseSuggestions                                *)
(***************************************************************************)
\* the file a label resolves to under the preference order exact equality,
\* then suffix match, then substring containment (0 when nothing matches)
PreferredFile(fs, label) ==
    LET exact == {k \in 1..Len(fs) : fs[k].filename = label}
        suffix == {k \in 1..Len(fs) : \/ endsWith(fs[k].filename, label)
                                      \/ endsWith(label, fs[k].filename)}
        substr == {k \in 1..Len(fs) : \/ includes(fs[k].filename, label)
                                      \/ includes(label, fs[k].filename)}
    IN IF exact # {} THEN SetMin(exact)
       ELSE IF suffix # {} THEN SetMin(suffix)
       ELSE IF substr # {} THEN SetMin(substr)
       ELSE 0

\* the suggestion sg was parsed from the block b
ParsedFrom(sg, b) ==
    /\ sg.issue = trim(b.issue)
    /\ sg.code = trim(b.code)
    /\ lineMatch(b.linesLabel) # <<>>
    /\ sg.startLine = parseInt(lineMatch(b.linesLabel)[1])

\* C11: every suggestion returned by parseSuggestions is resolved to the file
\* that its block's label selects under the preference order exact equality,
\* then suffix match, then substring containment; in particular to the file
\* whose path equals the label whenever there is one, whatever the order of
\* the changed-file list.
C11_ResolutionFollowsPreference ==
    pc \notin {"start", "context", "consolidate", "suggest", "parse"} =>
        \A i \in 1..Len(suggestions) :
            \E j \in 1..Len(blocks) :
                /\ ParsedFrom(suggestions[i], blocks[j])
                /\ PreferredFile(files, trim(blocks[j].fileLabel)) # 0
                /\ suggestions[i].path
                     = files[PreferredFile(files, trim(blocks[j].fileLabel))].filename

(***************************************************************************)
(* C12: blocks that parseSuggestions skips                                 *)
(***************************************************************************)
\* the blocks of the answer that yield no candidate: a required marker is
\* missing, the file label matches no changed file, or the line label holds
\* no number
YieldsNoCandidate(block) ==
    block \in MalformedBlocks \cup {ReadmeBlock, NoNumberBlock, EmptyBlock}

\* the answer without the blocks that yield no candidate
OtherBlocks == SelectSeq(answer, LAMBDA block : ~YieldsNoCandidate(block))

\* C12: a block that is malformed, whose file label matches no changed file
\* or whose line label holds no number yields no candidate and raises no
\* error, and the candidates parsed from the text are those parsed from the
\* text of the other blocks alone.
C12_SkippedBlocksChangeNothing ==
    (pc = "validate" /\ vIdx = 1) =>
        suggestions = parseSuggestions(Paragraphs(OtherBlocks), files).unique

(***************************************************************************)
(* C13: priority tagging                                                   *)
(***************************************************************************)
\* the priority that the Priority marker of each block of the answers stands
\* for, the block being named by its issue: Urgent, High, Medium or Low when
\* the marker holds that word in any case and between any blanks, Medium when
\* the marker is absent ("Simplify") or holds another word ("Inline": Critical)
MarkerPriority(issue) ==
    IF issue \in {"Reorder", "4:fix"} THEN "URGENT"
    ELSE IF issue \in {"Rename call", "fix"} THEN "HIGH"
    ELSE IF issue \in {"RENAME CALL", "Fix"} THEN "LOW"
    ELSE "MEDIUM"

\* the emoji of each priority, named by its code point: red, orange and green
\* circle, and yellow circle for Medium
MarkerEmoji(priority) ==
    IF priority = "URGENT" THEN "U+1F534"
    ELSE IF priority = "HIGH" THEN "U+1F7E0"
    ELSE IF priority = "MEDIUM" THEN "U+1F7E1"
    ELSE "U+1F7E2"

\* C13: every parsed suggestion carries the priority its block's Priority
\* marker stands for (Medium when absent or anything else), and the body of
\* every comment of the payload is the emoji of that priority, the priority
\* tag, the issue, and a suggestion fence holding the replacement code.
C13_PriorityTagging ==
    /\ pc \notin {"start", "context", "consolidate", "suggest", "parse"} =>
           \A i \in 1..Len(suggestions) :
               suggestions[i].priority = MarkerPriority(suggestions[i].issue)
    /\ PayloadBuilt =>
           \A k \in 1..Len(comments) :
               comments[k].body
                 = MarkerEmoji(MarkerPriority(validated[k].issue))
                   \o " **[" \o MarkerPriority(validated[k].issue) \o "]** "
                   \o validated[k].issue
                   \o "\n\n" \o Fence \o "suggestion\n" \o validated[k].code \o "\n" \o Fence

\* a review was posted with a comment for the block whose marker reads
\* "**Priority:  low **", tagged with the green circle and LOW
C13_Witness ==
    /\ reviewCalls = 1
    /\ \E k \in 1..Len(comments) :
           /\ validated[k].issue = "RENAME CALL"
           /\ startsWith(comments[k].body, "U+1F7E2 **[LOW]** RENAME CALL")

(***************************************************************************)
(* C14: the review decision                                                *)
(***************************************************************************)
\* C14: the payload handed to createReview has the event REQUEST_CHANGES
\* exactly when it holds one or more inline comments and the event COMMENT
\* exactly when it holds none.
C14_ReviewDecision ==
    PayloadBuilt =>
        /\ reviewEvent = "REQUEST_CHANGES" <=> Len(comments) >= 1
        /\ reviewEvent = "COMMENT" <=> Len(comments) = 0

\* a review with exactly one inline comment was posted as REQUEST_CHANGES
C14_Witness ==
    /\ reviewCalls = 1
    /\ exitCode = 0
    /\ Len(comments) = 1
    /\ reviewEvent = "REQUEST_CHANGES"

(***************************************************************************)
(* C15, C16: findPositionInPatch, checked under SpecPosition               *)
(***************************************************************************)
\* The replayed new-file line number of every line of a patch, -1 for a line
\* that has none: a hunk header @@ -a[,b] +c[,d] @@ sets the counter to c, a
\* '+' or ' ' line after a header takes the counter and advances it, any
\* other line and any line before the first header has no number.
RECURSIVE Numbering(_, _, _, _)
Numbering(lines, i, inHunk, counter) ==
    IF i > Len(lines) THEN <<>>
    ELSE LET line == lines[i]
         IN IF startsWith(line, "@@")
            THEN IF HunkHeaderMatch(line) # ""
                 THEN <<-1>> \o Numbering(lines, i + 1, TRUE, parseInt(HunkHeaderMatch(line)))
                 ELSE <<-1>> \o Numbering(lines, i + 1, inHunk, counter)
            ELSE IF inHunk /\ Ch(line, 1) \in {"+", " "}
            THEN <<counter>> \o Numbering(lines, i + 1, inHunk, counter + 1)
            ELSE <<-1>> \o Numbering(lines, i + 1, inHunk, counter)

PatchLines == split(patch)
LineNumbers == Numbering(PatchLines, 1, FALSE, 0)

\* the 1-based indexes, over every line of the patch text, of the lines
\* whose replayed number is targetLine
IndexesOfTarget == {i \in 1..Len(PatchLines) : LineNumbers[i] = targetLine}

\* findPositionInPatch returned the first such index, or null when there is
\* none; the line at the returned index is no header and no deletion; the
\* suggestion is pushed exactly when a position was found
ResolvesTarget ==
    /\ position = IF IndexesOfTarget = {} THEN 0 ELSE SetMin(IndexesOfTarget)
    /\ position # 0 => Ch(PatchLines[position], 1) \in {"+", " "}
    /\ positioned = <<>> <=> position = 0
    /\ positioned # <<>> => positioned[1].position = position

\* every line starting with @@ is a hunk header @@ -a[,b] +c[,d] @@, and no
\* '+' or ' ' line stands before the first of them
HeadersFirst ==
    /\ \A i \in 1..Len(PatchLines) :
           startsWith(PatchLines[i], "@@") => HunkHeaderMatch(PatchLines[i]) # ""
    /\ \A i \in 1..Len(PatchLines) :
           Ch(PatchLines[i], 1) \in {"+", " "} =>
               \E j \in 1..(i - 1) : startsWith(PatchLines[j], "@@")

\* C15 (as stated): for every patch text, findPositionInPatch(patch, n)
\* returns the 1-based index, over every line of the text, of the addition or
\* context line whose replayed new-file line number is n, and null when no
\* line reaches n, in which case the suggestion is dropped.
C15_PositionOfReplayedLine == pc = "found" => ResolvesTarget

\* C15 (amended): the same for every patch text in which every line starting
\* with @@ is a hunk header and no addition or context line stands before
\* the first hunk header.
C15_PositionInHostPatch == (pc = "found" /\ HeadersFirst) => ResolvesTarget

\* a position was found behind a hunk header and a deletion line, both of
\* which were counted
C15_Witness ==
    /\ pc = "found"
    /\ HeadersFirst
    /\ position = 3
    /\ startsWith(PatchLines[2], "-")
    /\ positioned # <<>>

\* buildLineMap has the key targetLine exactly when a position was found, and
\* then the line at the position is the line recorded for targetLine
AgreesWithIndex ==
    LET index == buildLineMap(patch)
    IN /\ position # 0 <=> targetLine \in DOMAIN index
       /\ position # 0 =>
              PatchLines[position]
                = (IF index[targetLine].type = "add" THEN "+" ELSE " ")
                  \o index[targetLine].content

\* no addition or context line stands in a hunk whose new start is 0 (such a
\* line would have the number 0), and no new-file line number is reached by
\* two lines
OneLinePerNumber ==
    /\ \A i \in 1..Len(PatchLines) : LineNumbers[i] # 0
    /\ \A i, j \in 1..Len(PatchLines) :
           (LineNumbers[i] # -1 /\ LineNumbers[i] = LineNumbers[j]) => i = j

\* C16 (as stated): for every patch text and every n, findPositionInPatch
\* finds a position exactly when buildLineMap has the key n, and the line at
\* that position is the line recorded for n, also for patches with lines
\* before the first hunk header or a hunk whose new start is 0.
C16_SameCountingAsIndex == pc = "found" => AgreesWithIndex

\* C16 (amended): the same for every patch text in which every line starting
\* with @@ is a hunk header, no addition or context line stands before the
\* first hunk header, a hunk whose new start is 0 has no addition or context
\* line, and no new-file line number is reached twice.
C16_SameCountingInHostPatch ==
    (pc = "found" /\ HeadersFirst /\ OneLinePerNumber) => AgreesWithIndex

\* a context line behind a header without counts was found at the line
\* number that the index records for it
C16_Witness ==
    /\ pc = "found"
    /\ HeadersFirst
    /\ OneLinePerNumber
    /\ position # 0
    /\ startsWith(PatchLines[position], " ")
    /\ targetLine > 2
    /\ buildLineMap(patch)[targetLine].type = "context"

(***************************************************************************)
(* C17: no restated suggestion in the review body, checked under SpecBody  *)
(***************************************************************************)
\* t without its leading characters of the set S
RECURSIVE DropLeading(_, _)
DropLeading(t, S) == IF t # "" /\ Ch(t, 1) \in S THEN DropLeading(From(t, 2), S) ELSE t

\* t without the wrench it may start with (the names of the code points are
\* read in either case)
DropWrench(t) ==
    LET low == toLowerCase(t)
        wrenches == {"u+1f6e0u+fe0f", "u+1f527", "u+1f6e0", ":wrench:"}
        found == {w \in wrenches : startsWith(low, w)}
    IN IF found = {} THEN t
       ELSE From(t, SetMax({Len(w) : w \in found}) + 1)

\* the line, after blanks, starts with a File: or **File: marker, or is a
\* Code Suggestions heading (at most six #, an optional wrench); read without
\* regard to case when anyCase
RestatedLine(line, anyCase) ==
    LET t == IF anyCase THEN toLowerCase(line) ELSE line
        word(w) == IF anyCase THEN toLowerCase(w) ELSE w
        indented == DropLeading(t, {" ", "\t"})
        unhashed == DropLeading(indented, {"#"})
        title == DropLeading(DropWrench(DropLeading(unhashed, {" ", "\t"})), {" ", "\t"})
        second == DropLeading(From(title, Len("Code") + 1), {" ", "\t"})
    IN \/ startsWith(indented, word("File:"))
       \/ startsWith(indented, word("**File:"))
       \/ /\ Len(indented) - Len(unhashed) <= 6
          /\ startsWith(title, word("Code"))
          /\ Ch(title, Len("Code") + 1) \in {" ", "\t"}
          /\ startsWith(second, word("Suggestions"))

\* the Context Checks section of the body, empty without findings
FindingsSection ==
    IF contextFindings = <<>> THEN ""
    ELSE "\n\n## Context Checks\n"
         \o join([k \in 1..Len(contextFindings) |-> "- " \o contextFindings[k]])

\* the part of the body in front of the Context Checks section
LlmPart == substring0(consolidatedBody, Len(consolidatedBody) - Len(FindingsSection))

\* the consolidated text up to its first restated line, read in any case
KeptText ==
    LET ls == split(consolidated)
        restated == {k \in 1..Len(ls) : RestatedLine(ls[k], TRUE)}
    IN IF restated = {} THEN consolidated
       ELSE join(SubSeq(ls, 1, SetMin(restated) - 1))

\* the body is the kept text, trimmed, followed by the findings section, and
\* no line of the kept part is a restated line
BodyWithoutRestatedLines ==
    /\ consolidatedBody = LlmPart \o FindingsSection
    /\ LlmPart = trim(KeptText)
    /\ \A k \in 1..Len(split(LlmPart)) : ~RestatedLine(split(LlmPart)[k], FALSE)

\* the white space of the text is blanks, tabs and the line breaks \n and \r\n
PlainWhiteSpace(t) ==
    \A i \in 1..Len(t) : /\ Ch(t, i) # "\f"
                         /\ Ch(t, i) = "\r" => Ch(t, i + 1) = "\n"

C18_ContextChecksAdvisory ==
    PayloadBuilt =>
        /\ comments = [k \in 1..Len(AcceptedSuggestions) |-> makeComment(AcceptedSuggestions[k])]
        /\ reviewEvent = IF AcceptedSuggestions = <<>> THEN "COMMENT" ELSE "REQUEST_CHANGES"
        /\ consolidatedBody = stripSuggestions(consolidated) \o FindingsSection
        /\ contextFindings = <<>> => ~includes(consolidatedBody, "## Context Checks")

\* a review with an accepted suggestion was posted in a run with a finding
C18_Witness ==
    /\ postOutcome = "created"
    /\ contextFindings # <<>>
    /\ Len(comments) = Len(suggestions)
    /\ Len(comments) > 0
    /\ reviewEvent = "REQUEST_CHANGES"
    /\ includes(reviewBody, "## Context Checks\n- JS import missing")

\* C19: createReview is called at most once in a run; when it rejects, the
\* run has ended with exit code 1 after that single call, with no second
\* attempt and no call with a part of the comments.
C19_PostingErrorIsFatal ==
    /\ reviewCalls <= 1
    /\ postOutcome # "" => reviewCalls = 1 /\ pc = "exited"
    /\ postOutcome = "rejected" => exitCode = 1
    /\ postOutcome = "created" => exitCode = 0

\* createReview rejected a review that carried two comments
C19_Witness ==
    /\ postOutcome = "rejected"
    /\ Len(comments) = 2
    /\ reviewCalls = 1
    /\ exitCode = 1

(***************************************************************************)
(* C20: provider errors of the single-call scripts, under SpecSingle       *)
(***************************************************************************)
\* the comment is an error notice / a result comment
IsErrorNotice(b) == startsWith(b, "**[") /\ includes(b, " ERROR]** Failed to generate ")
IsResultComment(b) == startsWith(b, "## ") /\ includes(b, "_Response generated using ")

\* the generation call of the run has to throw: unknown provider, missing
\* API key, failed call or empty content
GenerationFails ==
    \/ provider \notin {"CHATGPT", "GEMINI", "CLAUDE"}
    \/ ~apiKeySet
    \/ reply \in {"", "HTTP 500"}

\* C20: a run of a single-call script makes one createComment call: with the
\* error notice, which quotes the error, when the generation call threw, and
\* then the run ends with exit code 1; with the result, which carries the
\* generated text, when it returned. No run posts both a notice and a
\* result, and the comments on the PR are the comments of the accepted calls.
C20_OneNoticeOrOneResult ==
    /\ Len(commentCalls) <= 1
    /\ prComments \in {<<>>, commentCalls}
    /\ pc # "generate" => (thrown # "" <=> GenerationFails)
    /\ pc = "exited" =>
           /\ Len(commentCalls) = 1
           /\ GenerationFails =>
                  /\ IsErrorNotice(commentCalls[1])
                  /\ ~IsResultComment(commentCalls[1])
                  /\ endsWith(commentCalls[1], "Details: " \o thrown)
                  /\ exitCode = 1
           /\ ~GenerationFails =>
                  /\ IsResultComment(commentCalls[1])
                  /\ ~IsErrorNotice(commentCalls[1])
                  /\ includes(commentCalls[1], "\n\n" \o reply \o "\n\n")
                  /\ exitCode = IF prComments = <<>> THEN 1 ELSE 0

\* the provider answered without content, the notice of the summarize script
\* is on the PR and the run has failed
C20_Witness ==
    /\ pc = "exited"
    /\ script = "summarize"
    /\ provider = "GEMINI"
    /\ apiKeySet
    /\ reply = ""
    /\ prComments = <<errorNotice("summarize", "GEMINI", "Gemini returned no content.")>>
    /\ exitCode = 1

(***************************************************************************)
(* C21 - C23: the per-file suggest script, checked under SpecPerFile       *)
(***************************************************************************)
KnownProvider == provider \in {"CHATGPT", "GEMINI", "CLAUDE"}

\* the files the loop has gone past that had a textual patch
Processed == {k \in 1..Len(ctxFiles) : k < fIdx /\ ~noTextualPatch(ctxFiles[k])}

\* a provider call made for the file k threw, or the provider is unknown
ProviderFailed(k) == ~KnownProvider \/ \E c \in 1..Len(calls[k]) : calls[k][c].threw

\* number of 'Unable to analyze' notes of allSuggestions for a file name
NotesFor(name) ==
    Cardinality({i \in 1..Len(allSuggestions) : allSuggestions[i] = unableNote(name)})

FailedWithName(name) ==
    Cardinality({k \in Processed : ctxFiles[k].filename = name /\ ProviderFailed(k)})

\* C21: a provider error on one file does not end the run: calls are made
\* for the files in order, every file with a textual patch the loop has gone
\* past was handed to the provider, each file adds at most one entry and a
\* failing file exactly one 'Unable to analyze' note; the process ends only
\* after the one call of postComment, whose body is the fallback message
\* when there is no entry, and exit code 1 comes from that call only.
C21_PerFileDegradation ==
    /\ \A k \in 1..Len(ctxFiles) :
          /\ calls[k] # <<>> => k <= fIdx /\ ~noTextualPatch(ctxFiles[k])
          /\ k \in Processed /\ KnownProvider => calls[k] # <<>>
    /\ Len(allSuggestions) <= Cardinality(Processed)
    /\ \A k \in Processed :
          LET name == ctxFiles[k].filename
          IN /\ NotesFor(name) >= FailedWithName(name)
             /\ ~fileLinePatternThrows(name) => NotesFor(name) = FailedWithName(name)
    /\ pc # "exited" => commentCalls = <<>> /\ exitCode = -1
    /\ pc = "exited" =>
          /\ fIdx = Len(ctxFiles) + 1
          /\ Len(commentCalls) = 1
          /\ allSuggestions = <<>> => includes(commentCalls[1], "No textual changes detected")
          /\ exitCode = 0 => prComments = commentCalls
          /\ exitCode \in {0, 1}

\* C21 witness: the first of two files failed with a provider error, the
\* second one was analysed, and the one comment holds the note and the entry
C21_Witness ==
    /\ pc = "exited"
    /\ exitCode = 0
    /\ Len(ctxFiles) = 2
    /\ KnownProvider
    /\ calls[1] # <<>> /\ calls[1][1].threw
    /\ calls[2] # <<>> /\ ~ProviderFailed(2)
    /\ Len(allSuggestions) = 2
    /\ allSuggestions[1] = unableNote(ctxFiles[1].filename)
    /\ allSuggestions[2] # unableNote(ctxFiles[2].filename)
    /\ Len(prComments) = 1

\* the text the loop body holds after the calls cs made for a file
TextAfterCalls(cs) ==
    IF Len(cs) = 2 /\ isContractCompliant(cs[2].text) THEN cs[2].text ELSE cs[1].text

\* C22: for each file at most two provider calls are made, a generation call
\* and then at most one reformat call; the reformat call is made only after
\* a first output that fails isContractCompliant; and the text that goes on
\* is the reformatted one only if that one passes the check.
C22_BoundedReprompting ==
    /\ \A k \in 1..Len(ctxFiles) :
          /\ Len(calls[k]) <= 2
          /\ Len(calls[k]) >= 1 => calls[k][1].kind = "generate"
          /\ Len(calls[k]) = 2 =>
                /\ calls[k][2].kind = "reformat"
                /\ ~calls[k][1].threw
                /\ ~isContractCompliant(calls[k][1].text)
    /\ pc = "push" => fileText = TextAfterCalls(calls[fIdx])

\* C22 witness: a reformat call returned a compliant text that replaced the
\* non-compliant first output
C22_Witness ==
    /\ pc = "push"
    /\ Len(calls[fIdx]) = 2
    /\ ~isContractCompliant(calls[fIdx][1].text)
    /\ fileText = calls[fIdx][2].text
    /\ fileText # calls[fIdx][1].text

\* both outputs of the file k failed the structural-contract check
SecondFailure(k) ==
    /\ Len(calls[k]) = 2
    /\ ~calls[k][2].threw
    /\ ~isContractCompliant(calls[k][2].text)

\* the entry a compliant output t of the file k would get in the comment
NormalEntry(k, t) == ensured(sanitizeFencesKeepBackticks(t), ctxFiles[k].filename)

\* C23: when the reformatted output fails the check too, no further call is
\* made for the file and its first, non-compliant output is not posted the
\* way a compliant suggestion is.
C23_SecondFailureSurfaced ==
    /\ \A k \in 1..Len(ctxFiles) : SecondFailure(k) => Len(calls[k]) = 2
    /\ pc = "exited" =>
          \A k \in 1..Len(ctxFiles) :
              SecondFailure(k) /\ trim(calls[k][1].text) # ""
                  => ~includes(commentCalls[1], NormalEntry(k, calls[k][1].text))

(***************************************************************************)
(* C24: the truncation budget                                              *)
(***************************************************************************)
TruncationMarker == "\n...\n[truncated]\n...\n"

\* C24: truncate(str, max) returns str unchanged when its length is at most
\* max; under the budgets 6000 and 15000 a longer str comes back no longer
\* than max, as its first floor(0.7 * max) characters, the truncation marker
\* and its last max - floor(0.7 * max) - 30 characters.
C24_TruncationBudget ==
    pc = "returned" =>
        /\ Len(str) <= max => truncated = str
        /\ Len(str) > max =>
              /\ Len(truncated) <= max
              /\ truncated = SubSeq(str, 1, (7 * max) \div 10)
                             \o TruncationMarker
                             \o SubSeq(str, Len(str) - (max - ((7 * max) \div 10) - 30) + 1, Len(str))

\* C24 witness: a text one character over the budget of 6000 has been truncated
C24_Witness ==
    /\ pc = "returned"
    /\ max = 6000
    /\ Len(str) = 6001
    /\ Len(truncated) = 5991

(***************************************************************************)
(* C25: comments and unchanged context                                     *)
(***************************************************************************)
\* the lines of the index lm in the range of the suggestion sg that lm
\* classifies as context
ContextLinesOf(sg, lm) ==
    {i \in sg.startLine..sg.endLine : i \in DOMAIN lm /\ lm[i].type = "context"}

\* C25: validateSuggestion accepts only suggestions that target changed
\* lines: a suggestion whose line range includes a line that the index
\* classifies as context is not accepted, so no comment is made of it.
C25_NoCommentOnContext ==
    (pc = "verdict" /\ validation.valid) =>
        ContextLinesOf(suggestions[1], lineMap) = {}

(***************************************************************************)
(* C26: the order of the rules of validateSuggestion                       *)
(***************************************************************************)
\* the condition of the continuity rule as the code writes it: the range
\* spans three lines or more, both first tokens exist and differ, neither is
\* a common identifier, and overlapRatio < 0.3
ContinuityApplies(sg, a) ==
    /\ sg.endLine - sg.startLine >= 2
    /\ reachesCommonIdsHas(a)
    /\ getFirstToken(trim(a.actualLines[1])) \notin a.commonIds
    /\ getFirstToken(trim(split(a.suggestedCode)[1])) \notin a.commonIds
    /\ 10 * a.ratioNum < 3 * a.ratioDen

\* the first rule of the chain that applies to the candidate sg, a being the
\* constants validateSuggestion computes for it
FirstRuleAmong(sg, a) ==
    IF removesGuardClause(a) THEN "guard-clause"
    ELSE IF removesExistenceCheck(a) /\ ~issueExplicit(sg.issue) THEN "existence-check"
    ELSE IF isCompleteRewrite(a) /\ Cardinality(a.commonIds) < 2 THEN "control-flow"
    ELSE IF Len(a.actualCode) < 20 /\ (a.hasOverlap \/ Len(a.suggestedCode) < 20)
    THEN "short-snippet"
    ELSE IF a.actualIds # {} /\ a.suggestedIds # {} /\ 5 * a.ratioNum < a.ratioDen
    THEN "overlap-floor"
    ELSE IF ContinuityApplies(sg, a) THEN "continuity"
    ELSE "default"

FirstApplicableRule(sg, lm) ==
    IF \E i \in sg.startLine..sg.endLine : i \notin DOMAIN lm THEN "line-existence"
    ELSE FirstRuleAmong(sg, Locals(sg, lm))

\* the verdict v is the outcome of the rule
IsOutcomeOf(v, rule) ==
    /\ ~v.threw
    /\ CASE rule = "line-existence" -> ~v.valid /\ startsWith(v.reason, "Line ")
         [] rule = "guard-clause" -> ~v.valid /\ startsWith(v.reason, "Removes guard clause")
         [] rule = "existence-check" -> ~v.valid /\ startsWith(v.reason, "Removes existence")
         [] rule = "control-flow" -> ~v.valid /\ startsWith(v.reason, "Completely rewrites")
         [] rule = "short-snippet" -> v.valid
         [] rule = "overlap-floor" -> ~v.valid /\ startsWith(v.reason, "Insufficient identifier")
         [] rule = "continuity" -> ~v.valid /\ startsWith(v.reason, "Multi-line replacement")
         [] OTHER -> v.valid

\* C26: the verdict of validateSuggestion is the outcome of the first
\* applicable rule in the order line-existence, guard-clause removal,
\* existence-check removal, control-flow rewrite, short-snippet leniency,
\* overlap floor, multi-line continuity, default accept.
C26_OrderedRuleChain ==
    pc = "verdict" =>
        IsOutcomeOf(validation, FirstApplicableRule(suggestions[1], lineMap))

\* the part of C26 that the code keeps: whenever validateSuggestion returns,
\* what it returns is the outcome of the first applicable rule
C26_OrderWhenReturning ==
    (pc = "verdict" /\ ~validation.threw) =>
        IsOutcomeOf(validation, FirstApplicableRule(suggestions[1], lineMap))

(***************************************************************************)
(* C27: the control-flow rewrite rule                                      *)
(***************************************************************************)
\* the candidate sg passes the line-existence, guard-clause and
\* existence-check rules
PassesEarlierRules(sg, lm) ==
    /\ \A i \in sg.startLine..sg.endLine : i \in DOMAIN lm
    /\ ~removesGuardClause(Locals(sg, lm))
    /\ ~(removesExistenceCheck(Locals(sg, lm)) /\ ~issueExplicit(sg.issue))

\* the three conditions of the rule, on the constants a of the candidate
RewriteConditions(a) ==
    /\ Cardinality({key \in DOMAIN a.actualStructure :
                       a.actualStructure[key] # a.suggestedStructure[key]}) >= 3
    /\ \/ a.actualStructure.hasIf # a.suggestedStructure.hasIf
       \/ a.actualStructure.hasForeach # a.suggestedStructure.hasForeach
    /\ Cardinality(a.actualIds \cap a.suggestedIds) < 2

RejectedAsRewrite(v) ==
    ~v.threw /\ ~v.valid /\ startsWith(v.reason, "Completely rewrites control flow")

\* C27: a candidate not rejected by the earlier rules is rejected with the
\* control-flow-rewrite reason exactly when at least 3 structural features
\* differ, the if-presence or the foreach-presence feature differs, and
\* fewer than 2 identifiers are common to actual and suggested code.
C27_ControlFlowRewrite ==
    (pc = "verdict" /\ PassesEarlierRules(suggestions[1], lineMap)) =>
        (RejectedAsRewrite(validation)
           <=> RewriteConditions(Locals(suggestions[1], lineMap)))

\* C27 witness: a foreach loop offered for lines without one was rejected as
\* a rewrite of the control flow
C27_Witness ==
    /\ pc = "verdict"
    /\ PassesEarlierRules(suggestions[1], lineMap)
    /\ RejectedAsRewrite(validation)
    /\ includes(suggestions[1].code, "foreach")

(***************************************************************************)
(* C28: the line-existence rule                                            *)
(***************************************************************************)
\* the line numbers of the range of sg that are not keys of the index lm
MissingLines(sg, lm) == {i \in sg.startLine..sg.endLine : i \notin DOMAIN lm}

\* C28: every candidate with a line of its range missing from the index is
\* rejected with the reason naming the smallest missing line,
C28_MissingLineRejected ==
    (pc = "verdict" /\ MissingLines(suggestions[1], lineMap) # {}) =>
        /\ ~validation.threw
        /\ ~validation.valid
        /\ validation.reason
             = "Line " \o numToString(SetMin(MissingLines(suggestions[1], lineMap)))
               \o " not found in diff"

\* and so, against the empty index of a patch with no hunk header, every
\* candidate is rejected, none accepted, and none crashes.
C28_EmptyIndexRejectsAll ==
    (pc = "verdict" /\ lineMap = EmptyMap) =>
        (~validation.threw /\ ~validation.valid)

\* C28: both parts together
C28_LineExistence == C28_MissingLineRejected /\ C28_EmptyIndexRejectsAll

(***************************************************************************)
(* C29: actual code replaced by code that shares no identifier with it     *)
(***************************************************************************)
\* the actual code at the lines of sg is at least 20 characters long and
\* has no identifier in common with the replacement
LongAndUnrelated(sg, lm) ==
    /\ MissingLines(sg, lm) = {}
    /\ Len(Locals(sg, lm).actualCode) >= 20
    /\ extractIdentifiers(Locals(sg, lm).actualCode) \cap extractIdentifiers(sg.code) = {}

\* C29: when the actual code at the target lines is at least 20 characters
\* long and no identifier is common to actual and suggested code (also when
\* the replacement is empty or has no identifier longer than 2 characters),
\* validateSuggestion returns rejected.
C29_UnrelatedReplacementRejected ==
    (pc = "verdict" /\ LongAndUnrelated(suggestions[1], lineMap)) =>
        (~validation.threw /\ ~validation.valid)

(***************************************************************************)
(* C30: collectContextChecks and the run of the review                     *)
(***************************************************************************)
\* C30: collectContextChecks never throws, whatever the changed files hold
\* and whatever the lookups answer: no run ends in it, every run goes on to
\* the LLM calls with a list of advisory strings.
C30_ContextChecksNeverAbort ==
    /\ pc # "exited"
    /\ exitCode # 1

====
